---- MODULE Spec2Model ----
(***************************************************************************)
(* Model of the legacy-configuration migration of godel                     *)
(* (framework/builtintasks/upgradelegacyconfig.go): the RunE closure of     *)
(* UpgradeLegacyConfigTask, the hard-coded exclude.yml upgrader, the        *)
(* per-plugin upgradeLegacyConfig and processUnhandledYMLFiles.             *)
(*                                                                         *)
(* File bytes are modelled as YAML documents: a sequence of entries         *)
(* [key, val] (val a list of strings).  The empty sequence is the empty     *)
(* file.  A document with an entry whose key is BadKey is not valid YAML.   *)
(* The config directory is a function from the names of the files that      *)
(* exist to their bytes; backups made of a file are kept per original name. *)
(***************************************************************************)
EXTENDS Integers, Sequences, FiniteSets, TLC

\* ------------------------------------------------------------------ bounds
MaxTasks == 2
MaxNameLen == 2
MaxParams == 3

\* ------------------------------------------------------------ file names
ExcludeYML == "exclude.yml"
GodelYML == "godel.yml"

\* names in the order ioutil.ReadDir and sort.Strings give them
NameOrder == <<"a.yml", "b.yml", "exclude.yml", "godel.yml", "notes.txt", "r.yml", "s.yml", "sub.yml">>
IDOrder == <<"p", "q">>

FileNames == {NameOrder[i] : i \in 1..Len(NameOrder)}

\* strings.HasSuffix(name, ".yml"), of the names of the model
HasSuffixYML(name) == name \in FileNames \ {"notes.txt"}
TaskIDs == {IDOrder[i] : i \in 1..Len(IDOrder)}

Rank(order, x) == CHOOSE i \in 1..Len(order) : order[i] = x

RECURSIVE SortedSeq(_, _)
\* the elements of set S as a sequence, ascending in `order`
SortedSeq(order, S) ==
  IF S = {} THEN <<>>
  ELSE LET m == CHOOSE x \in S : \A y \in S : Rank(order, x) <= Rank(order, y)
       IN <<m>> \o SortedSeq(order, S \ {m})

RECURSIVE InsertSorted(_, _, _)
InsertSorted(order, s, x) ==
  IF s = <<>> THEN <<x>>
  ELSE IF Rank(order, x) < Rank(order, Head(s)) THEN <<x>> \o s
  ELSE <<Head(s)>> \o InsertSorted(order, Tail(s), x)

RECURSIVE SortStrings(_, _)
\* sort.Strings on a slice that may hold equal strings
SortStrings(order, s) ==
  IF s = <<>> THEN <<>>
  ELSE InsertSorted(order, SortStrings(order, Tail(s)), Head(s))

Range(s) == {s[i] : i \in 1..Len(s)}

\* ------------------------------------------------------------- documents
BadKey == "\t:"
MarkerKey == "legacy-config"
NamesKey == "names"
PathsKey == "paths"

Entry(k, v) == [key |-> k, val |-> v]
EmptyBytes == <<>>
BadBytes == <<Entry(BadKey, <<>>)>>

\* what the directory holds under the name of a subdirectory
DirMark == <<Entry("/", <<>>)>>

\* yaml.Unmarshal succeeds on these bytes
YAMLValid(bytes) == \A i \in 1..Len(bytes) : bytes[i].key # BadKey

\* yaml.UnmarshalStrict into matcher.NamesPathsCfg succeeds: valid YAML, only
\* the fields of the struct, no key twice
StrictNamesPathsValid(bytes) ==
  /\ YAMLValid(bytes)
  /\ \A i \in 1..Len(bytes) : bytes[i].key \in {NamesKey, PathsKey}
  /\ \A i, j \in 1..Len(bytes) : bytes[i].key = bytes[j].key => i = j

FieldOf(bytes, k) ==
  IF \E i \in 1..Len(bytes) : bytes[i].key = k
  THEN bytes[CHOOSE i \in 1..Len(bytes) : bytes[i].key = k].val
  ELSE <<>>

\* the matcher.NamesPathsCfg decoded from a document
NamesPathsCfg(bytes) == [Names |-> FieldOf(bytes, NamesKey), Paths |-> FieldOf(bytes, PathsKey)]

\* yaml.Marshal of the exclude section of the godel configuration
MarshalGodelConfig(cfg) == <<Entry(NamesKey, cfg.Names), Entry(PathsKey, cfg.Paths)>>

\* ------------------------------------------------------------ filesystem
\* fs = [dir, unreadable, bak]
\* os.Stat finds the file; path.Join(configDirPath, "") is the config
\* directory itself, which exists
Exists(fs, f) == f = "" \/ f \in DOMAIN fs.dir

RemoveFile(dir, f) == [n \in (DOMAIN dir) \ {f} |-> dir[n]]
PutFile(dir, f, bytes) == [n \in (DOMAIN dir) \cup {f} |-> IF n = f THEN bytes ELSE dir[n]]

\* ioutil.ReadFile fails on a file that does not exist or cannot be opened,
\* and on a directory
ReadFails(fs, f) == f \notin DOMAIN fs.dir \/ f \in fs.unreadable \/ fs.dir[f] = DirMark

\* ioutil.WriteFile(path, bytes, 0644)
WriteFile(fs, f, bytes) == [fs EXCEPT !.dir = PutFile(fs.dir, f, bytes)]

\* ---------------------------------------------------------------- events
\* what an operation did: op is "backup", "write" or "run" (a call of a
\* plugin's Run transform); real is FALSE for an action that was only logged
\* (dry run); bytes are the bytes moved, written or handed to the transform
Event(op, f, who, real, bytes) == [op |-> op, file |-> f, who |-> who, real |-> real, bytes |-> bytes]

NoErr == ""
Ret(fs, err, ev, out) == [fs |-> fs, err |-> err, ev |-> ev, out |-> out]

\* dryRunPrintln
DryRunLine(dryRun, msg) == [dry |-> dryRun, msg |-> msg, files |-> <<>>, bytes |-> <<>>]
DryRunLineFiles(dryRun, msg, files) == [dry |-> dryRun, msg |-> msg, files |-> files, bytes |-> <<>>]

\* printUpgradedConfig: the content is printed only with --print-content
PrintUpgradedConfig(f, bytes, dryRun, printContent) ==
  <<[dry |-> dryRun, msg |-> "Upgraded configuration", files |-> <<f>>,
     bytes |-> IF printContent THEN bytes ELSE <<>>]>>

\* backupConfigFile: nothing to do when the file does not exist; otherwise
\* the file is moved to a backup name that no earlier backup has (the
\* backups of a name are kept in a list, the new one is appended); under
\* dry run the move is only logged
BackupConfigFile(fs, f, who, dryRun) ==
  IF ~Exists(fs, f) THEN Ret(fs, NoErr, <<>>, <<>>)
  ELSE LET moved == [fs EXCEPT !.dir = RemoveFile(fs.dir, f),
                               !.unreadable = fs.unreadable \ {f},
                               !.bak = [fs.bak EXCEPT ![f] = Append(fs.bak[f], fs.dir[f])]]
       IN Ret(IF dryRun THEN fs ELSE moved, NoErr,
              <<Event("backup", f, who, ~dryRun, fs.dir[f])>>,
              <<DryRunLineFiles(dryRun, "Backing up", <<f>>)>>)

\* --------------------------------------------------- built-in upgraders
RECURSIVE MergeLegacyNames(_, _, _, _)
\* lines 185-191: every legacy name not among the names godel.yml had
\* before the loop is appended to Exclude.Names
MergeLegacyNames(cfg, existingNames, legacyNames, modified) ==
  IF legacyNames = <<>> THEN [cfg |-> cfg, modified |-> modified]
  ELSE IF Head(legacyNames) \in existingNames
       THEN MergeLegacyNames(cfg, existingNames, Tail(legacyNames), modified)
       ELSE MergeLegacyNames([cfg EXCEPT !.Names = Append(cfg.Names, Head(legacyNames))],
                             existingNames, Tail(legacyNames), TRUE)

RECURSIVE MergeLegacyPaths(_, _, _, _)
\* lines 192-198: for every legacy path not among the paths godel.yml had,
\* Exclude.Names is ASSIGNED append(Exclude.Paths, legacyPath)
MergeLegacyPaths(cfg, existingPaths, legacyPaths, modified) ==
  IF legacyPaths = <<>> THEN [cfg |-> cfg, modified |-> modified]
  ELSE IF Head(legacyPaths) \in existingPaths
       THEN MergeLegacyPaths(cfg, existingPaths, Tail(legacyPaths), modified)
       ELSE MergeLegacyPaths([cfg EXCEPT !.Names = Append(cfg.Paths, Head(legacyPaths))],
                             existingPaths, Tail(legacyPaths), TRUE)

\* the merge reporting a change whatever it appended
MergeExcludeAlwaysModified(current, excludeCfg) ==
  LET afterNames == MergeLegacyNames(current, Range(current.Names), excludeCfg.Names, FALSE)
  IN [MergeLegacyPaths(afterNames.cfg, Range(current.Paths), excludeCfg.Paths, afterNames.modified)
        EXCEPT !.modified = TRUE]

\* lines 175-198
MergeExclude(current, excludeCfg) ==
  LET afterNames == MergeLegacyNames(current, Range(current.Names), excludeCfg.Names, FALSE)
  IN MergeLegacyPaths(afterNames.cfg, Range(current.Paths), excludeCfg.Paths, afterNames.modified)

\* config.ReadGodelConfigFromFile: the exclude section of godel.yml.  A file
\* that cannot be read or is not valid YAML is an error.  For a file that
\* does not exist the result is either an error or the empty configuration
\* (missingIsEmpty), the two behaviours a reader of a config file can have.
ReadGodelConfigFromFile(fs, f, missingIsEmpty) ==
  IF ~Exists(fs, f)
  THEN [err |-> ~missingIsEmpty, cfg |-> NamesPathsCfg(<<>>)]
  ELSE IF ReadFails(fs, f) \/ ~YAMLValid(fs.dir[f])
       THEN [err |-> TRUE, cfg |-> NamesPathsCfg(<<>>)]
       ELSE [err |-> FALSE, cfg |-> NamesPathsCfg(fs.dir[f])]

\* lines 215-221: the write of the merged godel.yml and its log line
WriteGodelYML(fs, bytes, dryRun, printContent) ==
  Ret(IF ~dryRun THEN WriteFile(fs, GodelYML, bytes) ELSE fs, NoErr,
      <<Event("write", GodelYML, ExcludeYML, ~dryRun, bytes)>>,
      PrintUpgradedConfig(GodelYML, bytes, dryRun, printContent))

\* lines 153-223: upgradeConfigFn of the exclude.yml upgrader
ExcludeUpgradeConfigFn(fs, dryRun, printContent, missingIsEmpty) ==
  IF ~Exists(fs, ExcludeYML) THEN Ret(fs, NoErr, <<>>, <<>>)
  ELSE IF ReadFails(fs, ExcludeYML)
       THEN Ret(fs, "failed to read legacy configuration file", <<>>, <<>>)
  ELSE IF ~StrictNamesPathsValid(fs.dir[ExcludeYML])
       THEN Ret(fs, "failed to unmarshal legacy exclude configuration", <<>>, <<>>)
  ELSE LET excludeCfg == NamesPathsCfg(fs.dir[ExcludeYML])
           current == ReadGodelConfigFromFile(fs, GodelYML, missingIsEmpty)
       IN IF current.err THEN Ret(fs, "failed to read godel configuration", <<>>, <<>>)
          ELSE LET merged == MergeExclude(current.cfg, excludeCfg)
                   b == BackupConfigFile(fs, ExcludeYML, ExcludeYML, dryRun)
               IN IF ~merged.modified THEN b
                  ELSE LET w == WriteGodelYML(b.fs, MarshalGodelConfig(merged.cfg), dryRun, printContent)
                       IN Ret(w.fs, NoErr, b.ev \o w.ev, b.out \o w.out)

\* lines 150-225: hardCodedLegacyUpgraders, by configFileName
HardCodedLegacyUpgraders == <<ExcludeYML>>

\* ------------------------------------------------------- plugin upgrades
\* the Run transforms of the plugins: "fail" returns an error, "empty"
\* returns no bytes, "conv" replaces the marker entry by an entry of the
\* current format and keeps the rest of the document
RunKinds == {"fail", "empty", "conv"}
Marker == Entry(MarkerKey, <<"true">>)
Converted == Entry("version", <<"2">>)

Transform(kind, bytes) ==
  IF kind = "fail" THEN [err |-> TRUE, out |-> EmptyBytes]
  ELSE IF kind = "empty" THEN [err |-> FALSE, out |-> EmptyBytes]
  ELSE [err |-> FALSE, out |-> <<Converted>> \o SelectSeq(bytes, LAMBDA e : e.key # MarkerKey)]

\* the marker added after the entries of the legacy file instead of before
AppendMarker(ymlConfig) == ymlConfig \o <<Marker>>

\* lines 277-278: "legacy-config: true" becomes the first key
PrependMarker(ymlConfig) == <<Marker>> \o ymlConfig

\* WriteUpgraded without the dry-run guard of line 305
WriteUpgradedIgnoringDryRun(fs, task, bytes, dryRun, printContent) ==
  IF bytes = EmptyBytes THEN Ret(fs, NoErr, <<>>, <<>>)
  ELSE Ret(WriteFile(fs, task.ConfigFile, bytes), NoErr,
           <<Event("write", task.ConfigFile, task.ID, TRUE, bytes)>>,
           PrintUpgradedConfig(task.ConfigFile, bytes, dryRun, printContent))

\* WriteUpgraded without the empty-output return of lines 300-303
WriteUpgradedEvenIfEmpty(fs, task, bytes, dryRun, printContent) ==
  Ret(IF ~dryRun THEN WriteFile(fs, task.ConfigFile, bytes) ELSE fs, NoErr,
      <<Event("write", task.ConfigFile, task.ID, ~dryRun, bytes)>>,
      PrintUpgradedConfig(task.ConfigFile, bytes, dryRun, printContent))

\* lines 300-312: the destination is written unless the upgraded bytes are
\* empty; under dry run the write is only logged
WriteUpgraded(fs, task, bytes, dryRun, printContent) ==
  IF bytes = EmptyBytes THEN Ret(fs, NoErr, <<>>, <<>>)
  ELSE Ret(IF ~dryRun THEN WriteFile(fs, task.ConfigFile, bytes) ELSE fs, NoErr,
           <<Event("write", task.ConfigFile, task.ID, ~dryRun, bytes)>>,
           PrintUpgradedConfig(task.ConfigFile, bytes, dryRun, printContent))

\* UpgradeLegacyConfig without the backup of the legacy file (lines 289-292)
UpgradeLegacyConfigKeepingLegacy(task, fs, dryRun, printContent) ==
  LET legacy == task.LegacyConfigFile
  IN IF ~Exists(fs, legacy) THEN Ret(fs, NoErr, <<>>, <<>>)
     ELSE IF ReadFails(fs, legacy)
          THEN Ret(fs, "failed to read legacy configuration file", <<>>, <<>>)
     ELSE IF ~YAMLValid(fs.dir[legacy])
          THEN Ret(fs, "failed to unmarshal YAML configuration", <<>>, <<>>)
     ELSE LET ymlCfgBytes == PrependMarker(fs.dir[legacy])
              upgraded == Transform(task.Run, ymlCfgBytes)
              called == <<Event("run", legacy, task.ID, TRUE, ymlCfgBytes)>>
          IN IF upgraded.err THEN Ret(fs, "failed to upgrade configuration", called, <<>>)
             ELSE LET b2 == BackupConfigFile(fs, task.ConfigFile, task.ID, dryRun)
                      w == WriteUpgraded(b2.fs, task, upgraded.out, dryRun, printContent)
                  IN Ret(w.fs, NoErr, called \o b2.ev \o w.ev, b2.out \o w.out)

\* upgradeLegacyConfig with a dry run that stops once the legacy file is
\* parsed, before the transform
UpgradeLegacyConfigDryWithoutTransform(task, fs, dryRun, printContent) ==
  LET legacy == task.LegacyConfigFile
  IN IF ~Exists(fs, legacy) THEN Ret(fs, NoErr, <<>>, <<>>)
     ELSE IF ReadFails(fs, legacy)
          THEN Ret(fs, "failed to read legacy configuration file", <<>>, <<>>)
     ELSE IF ~YAMLValid(fs.dir[legacy])
          THEN Ret(fs, "failed to unmarshal YAML configuration", <<>>, <<>>)
     ELSE IF dryRun THEN Ret(fs, NoErr, <<>>, <<>>)
     ELSE LET ymlCfgBytes == PrependMarker(fs.dir[legacy])
              upgraded == Transform(task.Run, ymlCfgBytes)
              called == <<Event("run", legacy, task.ID, TRUE, ymlCfgBytes)>>
          IN IF upgraded.err THEN Ret(fs, "failed to upgrade configuration", called, <<>>)
             ELSE LET b1 == BackupConfigFile(fs, legacy, task.ID, dryRun)
                      b2 == BackupConfigFile(b1.fs, task.ConfigFile, task.ID, dryRun)
                      w == WriteUpgraded(b2.fs, task, upgraded.out, dryRun, printContent)
                  IN Ret(w.fs, NoErr, called \o b1.ev \o b2.ev \o w.ev, b1.out \o b2.out \o w.out)

\* upgradeLegacyConfig going on to the backup of the destination file when
\* there is no legacy file
UpgradeLegacyConfigWithoutLegacy(task, fs, dryRun, printContent) ==
  LET legacy == task.LegacyConfigFile
  IN IF ~Exists(fs, legacy)
     THEN LET b2 == BackupConfigFile(fs, task.ConfigFile, task.ID, dryRun)
          IN Ret(b2.fs, NoErr, b2.ev, b2.out)
     ELSE IF ReadFails(fs, legacy)
          THEN Ret(fs, "failed to read legacy configuration file", <<>>, <<>>)
     ELSE IF ~YAMLValid(fs.dir[legacy])
          THEN Ret(fs, "failed to unmarshal YAML configuration", <<>>, <<>>)
     ELSE LET ymlCfgBytes == PrependMarker(fs.dir[legacy])
              upgraded == Transform(task.Run, ymlCfgBytes)
              called == <<Event("run", legacy, task.ID, TRUE, ymlCfgBytes)>>
          IN IF upgraded.err THEN Ret(fs, "failed to upgrade configuration", called, <<>>)
             ELSE LET b1 == BackupConfigFile(fs, legacy, task.ID, dryRun)
                      b2 == BackupConfigFile(b1.fs, task.ConfigFile, task.ID, dryRun)
                      w == WriteUpgraded(b2.fs, task, upgraded.out, dryRun, printContent)
                  IN Ret(w.fs, NoErr, called \o b1.ev \o b2.ev \o w.ev, b1.out \o b2.out \o w.out)

\* upgradeLegacyConfig writing the destination file without backing up the
\* file that is there
UpgradeLegacyConfigOverwriting(task, fs, dryRun, printContent) ==
  LET legacy == task.LegacyConfigFile
  IN IF ~Exists(fs, legacy) THEN Ret(fs, NoErr, <<>>, <<>>)
     ELSE IF ReadFails(fs, legacy)
          THEN Ret(fs, "failed to read legacy configuration file", <<>>, <<>>)
     ELSE IF ~YAMLValid(fs.dir[legacy])
          THEN Ret(fs, "failed to unmarshal YAML configuration", <<>>, <<>>)
     ELSE LET ymlCfgBytes == PrependMarker(fs.dir[legacy])
              upgraded == Transform(task.Run, ymlCfgBytes)
              called == <<Event("run", legacy, task.ID, TRUE, ymlCfgBytes)>>
          IN IF upgraded.err THEN Ret(fs, "failed to upgrade configuration", called, <<>>)
             ELSE LET b1 == BackupConfigFile(fs, legacy, task.ID, dryRun)
                      w == WriteUpgraded(b1.fs, task, upgraded.out, dryRun, printContent)
                  IN Ret(w.fs, NoErr, called \o b1.ev \o w.ev, b1.out \o w.out)

\* upgradeLegacyConfig moving the legacy file away before the transform runs
UpgradeLegacyConfigBackupFirst(task, fs, dryRun, printContent) ==
  LET legacy == task.LegacyConfigFile
  IN IF ~Exists(fs, legacy) THEN Ret(fs, NoErr, <<>>, <<>>)
     ELSE IF ReadFails(fs, legacy)
          THEN Ret(fs, "failed to read legacy configuration file", <<>>, <<>>)
     ELSE IF ~YAMLValid(fs.dir[legacy])
          THEN Ret(fs, "failed to unmarshal YAML configuration", <<>>, <<>>)
     ELSE LET ymlCfgBytes == PrependMarker(fs.dir[legacy])
              upgraded == Transform(task.Run, ymlCfgBytes)
              called == <<Event("run", legacy, task.ID, TRUE, ymlCfgBytes)>>
              b1 == BackupConfigFile(fs, legacy, task.ID, dryRun)
          IN IF upgraded.err
             THEN Ret(b1.fs, "failed to upgrade configuration", b1.ev \o called, b1.out)
             ELSE LET b2 == BackupConfigFile(b1.fs, task.ConfigFile, task.ID, dryRun)
                      w == WriteUpgraded(b2.fs, task, upgraded.out, dryRun, printContent)
                  IN Ret(w.fs, NoErr, called \o b1.ev \o b2.ev \o w.ev, b1.out \o b2.out \o w.out)

\* upgradeLegacyConfig writing the destination before it backs it up
UpgradeLegacyConfigWriteFirst(task, fs, dryRun, printContent) ==
  LET legacy == task.LegacyConfigFile
  IN IF ~Exists(fs, legacy) THEN Ret(fs, NoErr, <<>>, <<>>)
     ELSE IF ReadFails(fs, legacy)
          THEN Ret(fs, "failed to read legacy configuration file", <<>>, <<>>)
     ELSE IF ~YAMLValid(fs.dir[legacy])
          THEN Ret(fs, "failed to unmarshal YAML configuration", <<>>, <<>>)
     ELSE LET ymlCfgBytes == PrependMarker(fs.dir[legacy])
              upgraded == Transform(task.Run, ymlCfgBytes)
              called == <<Event("run", legacy, task.ID, TRUE, ymlCfgBytes)>>
          IN IF upgraded.err THEN Ret(fs, "failed to upgrade configuration", called, <<>>)
             ELSE LET b1 == BackupConfigFile(fs, legacy, task.ID, dryRun)
                      w == WriteUpgraded(b1.fs, task, upgraded.out, dryRun, printContent)
                      b2 == BackupConfigFile(w.fs, task.ConfigFile, task.ID, dryRun)
                  IN Ret(b2.fs, NoErr, called \o b1.ev \o w.ev \o b2.ev, b1.out \o w.out \o b2.out)

\* lines 262-313
UpgradeLegacyConfig(task, fs, dryRun, printContent) ==
  LET legacy == task.LegacyConfigFile
  IN IF ~Exists(fs, legacy) THEN Ret(fs, NoErr, <<>>, <<>>)
     ELSE IF ReadFails(fs, legacy)
          THEN Ret(fs, "failed to read legacy configuration file", <<>>, <<>>)
     ELSE IF ~YAMLValid(fs.dir[legacy])
          THEN Ret(fs, "failed to unmarshal YAML configuration", <<>>, <<>>)
     ELSE LET ymlCfgBytes == PrependMarker(fs.dir[legacy])
              upgraded == Transform(task.Run, ymlCfgBytes)
              called == <<Event("run", legacy, task.ID, TRUE, ymlCfgBytes)>>
          IN IF upgraded.err THEN Ret(fs, "failed to upgrade configuration", called, <<>>)
             ELSE LET b1 == BackupConfigFile(fs, legacy, task.ID, dryRun)
                      b2 == BackupConfigFile(b1.fs, task.ConfigFile, task.ID, dryRun)
                      w == WriteUpgraded(b2.fs, task, upgraded.out, dryRun, printContent)
                  IN Ret(w.fs, NoErr, called \o b1.ev \o b2.ev \o w.ev, b1.out \o b2.out \o w.out)

\* ------------------------------------------------------- unhandled files
RECURSIVE UnhandledLoop(_, _, _, _, _, _)
\* lines 320-344
UnhandledLoop(fs, files, nonEmpty, ev, out, dryRun) ==
  IF files = <<>>
  THEN IF nonEmpty = <<>> THEN Ret(fs, NoErr, ev, out)
       ELSE Ret(fs, NoErr, ev,
                out \o <<DryRunLineFiles(dryRun, "WARNING", nonEmpty),
                         DryRunLine(dryRun, "If these configuration file(s) are for plugins")>>)
  ELSE LET f == Head(files)
       IN IF ReadFails(fs, f) THEN Ret(fs, "failed to read configuration file", ev, out)
          ELSE IF fs.dir[f] = EmptyBytes
               THEN LET b == BackupConfigFile(fs, f, "unhandled", dryRun)
                    IN UnhandledLoop(b.fs, Tail(files), nonEmpty, ev \o b.ev, out \o b.out, dryRun)
               ELSE UnhandledLoop(fs, Tail(files), Append(nonEmpty, f), ev, out, dryRun)

\* lines 315-345
ProcessUnhandledYMLFiles(fs, unknownYMLFiles, dryRun) ==
  UnhandledLoop(fs, unknownYMLFiles, <<>>, <<>>, <<>>, dryRun)

\* dirYMLFiles keeping the subdirectories
DirYMLFilesWithDirs(fs) == SortedSeq(NameOrder, {n \in DOMAIN fs.dir : HasSuffixYML(n)})

\* lines 227-242: the names of the entries that are not directories and end
\* in .yml, in directory order
DirYMLFiles(fs) ==
  SortedSeq(NameOrder, {n \in DOMAIN fs.dir : fs.dir[n] # DirMark /\ HasSuffixYML(n)})

\* ------------------------------------------------------------------ state
VARIABLES
  dir,                     \* the config directory: file name -> bytes
  unreadable,              \* files of dir that cannot be opened for reading
  bak,                     \* file name -> the backups made of it, oldest first
  upgradeTasks,            \* the UpgradeConfigTasks handed to UpgradeLegacyConfigTask
  dryRunFlagVal,
  printContentFlagVal,
  missingIsEmpty,          \* how ReadGodelConfigFromFile treats a missing file
  pc,                      \* position in RunE
  originalYMLFiles,
  knownConfigFiles,
  upgradeTasksMap,
  failedUpgrades,
  legacyConfigUpgraderIDs,
  idx,                     \* index of the next pending ID (loop of line 109)
  unhandledYMLFiles,
  stdout,
  result,                  \* what RunE returned: "running", "nil" or "error:<message>"
  trace,                   \* history: the events of the current run
  attempts,                \* history: the upgrades attempted in the current run, with the task handed to upgradeLegacyConfig
  run,                     \* "first", "rerun" (same directory again), "reorder" or "real" (after a dry run)
  start,                   \* history: the directory before the first run
  first                    \* history: the outcome of the first run

vars == <<dir, unreadable, bak, upgradeTasks, dryRunFlagVal, printContentFlagVal,
          missingIsEmpty, pc, originalYMLFiles, knownConfigFiles, upgradeTasksMap,
          failedUpgrades, legacyConfigUpgraderIDs, idx, unhandledYMLFiles, stdout,
          result, trace, attempts, run, start, first>>

\* the state of one task invocation of the plugin API (publish.go 304-527)
VARIABLES
  call,                    \* the inputs: name, description, params, cfgFileName, global, cfgDirOK, child
  ipc,                     \* "idle", "new", "totask", "runimpl", "cmdrun" or "done"
  ti,                      \* the *taskInfoImpl NewTaskInfo returned: <<>> is nil
  tiErr,                   \* the error NewTaskInfo returned
  task,                    \* the godellauncher.Task toTask returned: <<>> before toTask
  cmdArgs,                 \* the argv handed to exec.Command
  spawned,                 \* the number of times the plugin executable was started
  resolved,                \* the number of calls of godellauncher.ConfigDirPath
  runErr                   \* the error RunImpl returned: <<>> is nil, <<msg>> an error

ivars == <<call, ipc, ti, tiErr, task, cmdArgs, spawned, resolved, runErr>>

\* ------------------------------------ state of the comparison of checksums
VARIABLES
  matchCall,               \* the two checksums structs: receiver c and argument other
  mpc,                     \* "idle", "start", "matched" or "done"
  matchRet,                \* what c.match(other) returned
  backRet                  \* what other.match(c) returned

mvars == <<matchCall, mpc, matchRet, backRet>>

\* ------------------------------------------------- state of publish.Run
VARIABLES
  publishCall,             \* the inputs: dists (buildSpec.Dist with what each call will meet), almanacInfo (FALSE is nil)
  rpc,                     \* "idle", "stat", "paths", "publish", "almanac" or "done"
  distIdx,                 \* the position of the loop in buildSpec.Dist
  artifactURL,             \* what publisher.Publish returned for the current distribution
  published,               \* history: the calls Run made, in order
  publishRet               \* what Run returned: "nil" or the error; "running" before

rvars == <<publishCall, rpc, distIdx, artifactURL, published, publishRet>>

pvars == <<mvars, rvars>>

\* lines 174-178: type checksums
Checksums(sha1, sha256, md5) == [SHA1 |-> sha1, SHA256 |-> sha256, MD5 |-> md5]

\* no comparison is going on
MatchIdle ==
  /\ matchCall = [c |-> Checksums("", "", ""), other |-> Checksums("", "", "")]
  /\ mpc = "idle"
  /\ matchRet = FALSE
  /\ backRet = FALSE

\* Run has not been called
RunIdle ==
  /\ publishCall = [dists |-> <<>>, almanacInfo |-> FALSE]
  /\ rpc = "idle"
  /\ distIdx = 1
  /\ artifactURL = ""
  /\ published = <<>>
  /\ publishRet = "running"

PublishIdle == MatchIdle /\ RunIdle

FS == [dir |-> dir, unreadable |-> unreadable, bak |-> bak]

\* upgradeError(projectDir, path, err)
UpgradeError(f, err) == [file |-> f, err |-> err]

\* the task of an attempt that is not the upgrade of a registered task
NoTask == [ID |-> "", ConfigFile |-> "", LegacyConfigFile |-> "", Run |-> ""]

\* lines 84-87: a later task replaces an earlier one with the same ID
TasksMap(tasks) ==
  [id \in {tasks[i].ID : i \in 1..Len(tasks)} |->
     tasks[CHOOSE i \in 1..Len(tasks) :
             /\ tasks[i].ID = id
             /\ \A j \in 1..Len(tasks) : tasks[j].ID = id => j <= i]]

\* TaskConfigFiles skipping the tasks without a legacy file before their
\* ConfigFile is recorded
TaskConfigFilesOfPending(tasks) ==
  {tasks[i].ConfigFile : i \in {j \in 1..Len(tasks) : tasks[j].LegacyConfigFile # ""}}

\* lines 98-107: the ConfigFile of every task is known
TaskConfigFiles(tasks) == {tasks[i].ConfigFile : i \in 1..Len(tasks)}

\* PendingIDs without the sort of line 108: the IDs in registration order
PendingIDsUnsorted(tasks) ==
  [i \in 1..Len(SelectSeq(tasks, LAMBDA t : t.LegacyConfigFile # ""))
     |-> SelectSeq(tasks, LAMBDA t : t.LegacyConfigFile # "")[i].ID]

\* lines 98-108: the IDs of the tasks that have a legacy file, sorted
PendingIDs(tasks) ==
  SortStrings(IDOrder, [i \in 1..Len(SelectSeq(tasks, LAMBDA t : t.LegacyConfigFile # ""))
                          |-> SelectSeq(tasks, LAMBDA t : t.LegacyConfigFile # "")[i].ID])

\* lines 122-128
Unhandled(original, known) == SelectSeq(original, LAMBDA k : k \notin known)

Outcome == [dir |-> dir, bak |-> bak, known |-> knownConfigFiles, failed |-> failedUpgrades,
            trace |-> trace, stdout |-> stdout, result |-> result]
NoOutcome == [dir |-> <<>>, bak |-> <<>>, known |-> {}, failed |-> <<>>,
              trace |-> <<>>, stdout |-> <<>>, result |-> "running"]

\* ---------------------------------------------------------------- actions
\* lines 67-89
Enumerate ==
  /\ pc = "start"
  /\ originalYMLFiles' = DirYMLFiles(FS)
  /\ knownConfigFiles' = {}
  /\ upgradeTasksMap' = TasksMap(upgradeTasks)
  /\ failedUpgrades' = <<>>
  /\ pc' = "builtin"
  /\ UNCHANGED <<dir, unreadable, bak, upgradeTasks, dryRunFlagVal, printContentFlagVal,
                 missingIsEmpty, legacyConfigUpgraderIDs, idx, unhandledYMLFiles, stdout,
                 result, trace, attempts, run, start, first>>
  /\ UNCHANGED ivars
  /\ UNCHANGED pvars

\* lines 90-96: the loop over hardCodedLegacyUpgraders (one upgrader)
HardCoded ==
  /\ pc = "builtin"
  /\ LET r == ExcludeUpgradeConfigFn(FS, dryRunFlagVal, printContentFlagVal, missingIsEmpty)
     IN /\ dir' = r.fs.dir
        /\ unreadable' = r.fs.unreadable
        /\ bak' = r.fs.bak
        /\ failedUpgrades' = IF r.err # NoErr
                             THEN Append(failedUpgrades, UpgradeError(ExcludeYML, r.err))
                             ELSE failedUpgrades
        /\ trace' = trace \o r.ev
        /\ stdout' = stdout \o r.out
        /\ attempts' = Append(attempts, [who |-> ExcludeYML, failed |-> r.err # NoErr, task |-> NoTask])
  /\ knownConfigFiles' = knownConfigFiles \cup Range(HardCodedLegacyUpgraders)
  /\ pc' = "collect"
  /\ UNCHANGED <<upgradeTasks, dryRunFlagVal, printContentFlagVal, missingIsEmpty,
                 originalYMLFiles, upgradeTasksMap, legacyConfigUpgraderIDs, idx,
                 unhandledYMLFiles, result, run, start, first>>
  /\ UNCHANGED ivars
  /\ UNCHANGED pvars

\* lines 98-108
Collect ==
  /\ pc = "collect"
  /\ knownConfigFiles' = knownConfigFiles \cup TaskConfigFiles(upgradeTasks)
  /\ legacyConfigUpgraderIDs' = PendingIDs(upgradeTasks)
  /\ idx' = 1
  /\ pc' = "plugins"
  /\ UNCHANGED <<dir, unreadable, bak, upgradeTasks, dryRunFlagVal, printContentFlagVal,
                 missingIsEmpty, originalYMLFiles, upgradeTasksMap, failedUpgrades,
                 unhandledYMLFiles, stdout, result, trace, attempts, run, start, first>>
  /\ UNCHANGED ivars
  /\ UNCHANGED pvars

\* Plugin leaving the loop at the first failed upgrade
PluginStoppingAtFailure ==
  /\ pc = "plugins"
  /\ idx <= Len(legacyConfigUpgraderIDs)
  /\ LET upgradeTask == upgradeTasksMap[legacyConfigUpgraderIDs[idx]]
         r == UpgradeLegacyConfig(upgradeTask, FS, dryRunFlagVal, printContentFlagVal)
     IN /\ knownConfigFiles' = knownConfigFiles \cup {upgradeTask.LegacyConfigFile}
        /\ dir' = r.fs.dir
        /\ unreadable' = r.fs.unreadable
        /\ bak' = r.fs.bak
        /\ failedUpgrades' = IF r.err # NoErr
                             THEN Append(failedUpgrades, UpgradeError(upgradeTask.ConfigFile, r.err))
                             ELSE failedUpgrades
        /\ trace' = trace \o r.ev
        /\ stdout' = stdout \o r.out
        /\ attempts' = Append(attempts, [who |-> upgradeTask.ID, failed |-> r.err # NoErr,
                                        task |-> upgradeTask])
        /\ idx' = IF r.err # NoErr THEN Len(legacyConfigUpgraderIDs) + 1 ELSE idx + 1
  /\ UNCHANGED <<upgradeTasks, dryRunFlagVal, printContentFlagVal, missingIsEmpty, pc,
                 originalYMLFiles, upgradeTasksMap, legacyConfigUpgraderIDs,
                 unhandledYMLFiles, result, run, start, first>>
  /\ UNCHANGED ivars
  /\ UNCHANGED pvars

\* lines 109-120: one iteration of the loop over the sorted pending IDs
Plugin ==
  /\ pc = "plugins"
  /\ idx <= Len(legacyConfigUpgraderIDs)
  /\ LET upgradeTask == upgradeTasksMap[legacyConfigUpgraderIDs[idx]]
         r == UpgradeLegacyConfig(upgradeTask, FS, dryRunFlagVal, printContentFlagVal)
     IN /\ knownConfigFiles' = knownConfigFiles \cup {upgradeTask.LegacyConfigFile}
        /\ dir' = r.fs.dir
        /\ unreadable' = r.fs.unreadable
        /\ bak' = r.fs.bak
        /\ failedUpgrades' = IF r.err # NoErr
                             THEN Append(failedUpgrades, UpgradeError(upgradeTask.ConfigFile, r.err))
                             ELSE failedUpgrades
        /\ trace' = trace \o r.ev
        /\ stdout' = stdout \o r.out
        /\ attempts' = Append(attempts, [who |-> upgradeTask.ID, failed |-> r.err # NoErr,
                                        task |-> upgradeTask])
  /\ idx' = idx + 1
  /\ UNCHANGED <<upgradeTasks, dryRunFlagVal, printContentFlagVal, missingIsEmpty, pc,
                 originalYMLFiles, upgradeTasksMap, legacyConfigUpgraderIDs,
                 unhandledYMLFiles, result, run, start, first>>
  /\ UNCHANGED ivars
  /\ UNCHANGED pvars

\* lines 122-131: the unhandled files are processed; an error is returned
ProcessUnhandled ==
  /\ pc = "plugins"
  /\ idx > Len(legacyConfigUpgraderIDs)
  /\ unhandledYMLFiles' = Unhandled(originalYMLFiles, knownConfigFiles)
  /\ LET r == ProcessUnhandledYMLFiles(FS, unhandledYMLFiles', dryRunFlagVal)
     IN /\ dir' = r.fs.dir
        /\ unreadable' = r.fs.unreadable
        /\ bak' = r.fs.bak
        /\ trace' = trace \o r.ev
        /\ stdout' = stdout \o r.out
        /\ attempts' = Append(attempts, [who |-> "unhandled", failed |-> r.err # NoErr, task |-> NoTask])
        /\ IF r.err # NoErr
           THEN /\ result' = "error:" \o r.err
                /\ pc' = "done"
           ELSE /\ result' = result
                /\ pc' = "report"
  /\ UNCHANGED <<upgradeTasks, dryRunFlagVal, printContentFlagVal, missingIsEmpty,
                 originalYMLFiles, knownConfigFiles, upgradeTasksMap, failedUpgrades,
                 legacyConfigUpgraderIDs, idx, run, start, first>>
  /\ UNCHANGED ivars
  /\ UNCHANGED pvars

\* lines 133-140
Report ==
  /\ pc = "report"
  /\ IF Len(failedUpgrades) = 0
     THEN /\ result' = "nil"
          /\ stdout' = stdout
     ELSE /\ result' = "error:"
          /\ stdout' = stdout \o <<DryRunLine(dryRunFlagVal, "Failed to upgrade configuration:")>>
                         \o [i \in 1..Len(failedUpgrades) |->
                               [dry |-> dryRunFlagVal, msg |-> failedUpgrades[i].err,
                                files |-> <<failedUpgrades[i].file>>, bytes |-> <<>>]]
  /\ pc' = "done"
  /\ UNCHANGED <<dir, unreadable, bak, upgradeTasks, dryRunFlagVal, printContentFlagVal,
                 missingIsEmpty, originalYMLFiles, knownConfigFiles, upgradeTasksMap,
                 failedUpgrades, legacyConfigUpgraderIDs, idx, unhandledYMLFiles, trace,
                 attempts, run, start, first>>
  /\ UNCHANGED ivars
  /\ UNCHANGED pvars

\* a fresh invocation of the command
Fresh ==
  /\ pc' = "start"
  /\ originalYMLFiles' = <<>>
  /\ knownConfigFiles' = {}
  /\ upgradeTasksMap' = <<>>
  /\ failedUpgrades' = <<>>
  /\ legacyConfigUpgraderIDs' = <<>>
  /\ idx' = 1
  /\ unhandledYMLFiles' = <<>>
  /\ stdout' = <<>>
  /\ result' = "running"
  /\ trace' = <<>>
  /\ attempts' = <<>>

\* the command is run a second time, with the same tasks, on the directory
\* the first real run left
Rerun ==
  /\ pc = "done"
  /\ run = "first"
  /\ ~dryRunFlagVal
  /\ run' = "rerun"
  /\ first' = Outcome
  /\ Fresh
  /\ UNCHANGED <<dir, unreadable, bak, upgradeTasks, dryRunFlagVal, printContentFlagVal,
                 missingIsEmpty, start>>
  /\ UNCHANGED ivars
  /\ UNCHANGED pvars

Orderings(n) == {f \in [1..n -> 1..n] : \A i, j \in 1..n : f[i] = f[j] => i = j}

\* the command is run on the directory as it was before the first run, the
\* same tasks having been registered in another order
Reorder ==
  /\ pc = "done"
  /\ run = "first"
  /\ \E f \in Orderings(Len(upgradeTasks)) :
       /\ \E i \in 1..Len(upgradeTasks) : f[i] # i
       /\ upgradeTasks' = [i \in 1..Len(upgradeTasks) |-> upgradeTasks[f[i]]]
  /\ run' = "reorder"
  /\ first' = Outcome
  /\ dir' = start.dir
  /\ unreadable' = start.unreadable
  /\ bak' = start.bak
  /\ Fresh
  /\ UNCHANGED <<dryRunFlagVal, printContentFlagVal, missingIsEmpty, start>>
  /\ UNCHANGED ivars
  /\ UNCHANGED pvars

\* the command is run for real on the directory of a finished dry run (which
\* the dry run left as it was), with the same tasks
Toggle ==
  /\ pc = "done"
  /\ run = "first"
  /\ dryRunFlagVal
  /\ dryRunFlagVal' = FALSE
  /\ run' = "real"
  /\ first' = Outcome
  /\ dir' = start.dir
  /\ unreadable' = start.unreadable
  /\ bak' = start.bak
  /\ Fresh
  /\ UNCHANGED <<upgradeTasks, printContentFlagVal, missingIsEmpty, start>>
  /\ UNCHANGED ivars
  /\ UNCHANGED pvars

Next ==
  \/ Enumerate \/ HardCoded \/ Collect \/ Plugin \/ ProcessUnhandled \/ Report
  \/ Rerun \/ Reorder \/ Toggle

\* ------------------------------------------------------ initial states
Doc == <<Entry("x", <<"1">>)>>

Task(id, cfg, legacy, kind) == [ID |-> id, ConfigFile |-> cfg, LegacyConfigFile |-> legacy, Run |-> kind]

\* the tasks plugins register: with a legacy file (a.yml) and any of the
\* transforms, or without a legacy format; the current-format file is b.yml
\* or has kept the name of the legacy file
PluginTasks ==
  {Task(id, cfg, "a.yml", kind) : id \in TaskIDs, cfg \in {"a.yml", "b.yml"}, kind \in RunKinds}
  \cup {Task(id, cfg, "", "conv") : id \in TaskIDs, cfg \in {"a.yml", "b.yml"}}

\* two tasks of which the second has for legacy file the current file of the first
ChainedTasks == <<Task("p", "b.yml", "a.yml", "conv"), Task("q", "s.yml", "b.yml", "conv")>>

TaskLists(T) == UNION {[1..n -> T] : n \in 0..MaxTasks}

ExcludeDocs ==
  {<<Entry(NamesKey, ns), Entry(PathsKey, ps)>> :
     ns \in {<<>>, <<"build">>, <<"old", "build">>}, ps \in {<<>>, <<"vendor">>, <<"gen", "vendor">>}}
  \cup {<<Entry(NamesKey, <<"build">>)>>, <<Entry(PathsKey, <<"vendor">>)>>,
        <<Entry(NamesKey, <<"old">>), Entry(PathsKey, <<"gen">>)>>,
        <<Entry(NamesKey, <<"old", "old">>)>>,
        EmptyBytes, BadBytes, Doc}

GodelDocs ==
  {<<Entry(NamesKey, ns), Entry(PathsKey, ps)>> : ns \in {<<>>, <<"old">>}, ps \in {<<>>, <<"gen">>}}
  \cup {EmptyBytes, BadBytes}

\* a directory from a choice, per file name, of no file ({}) or its bytes ({b})
DirOf(choice) ==
  [n \in {m \in DOMAIN choice : choice[m] # {}} |-> CHOOSE b \in choice[n] : TRUE]

Opt(S) == {{}} \cup {{b} : b \in S}

NoBackups == [n \in FileNames |-> <<>>]

InitRun ==
  /\ bak = NoBackups
  /\ pc = "start"
  /\ originalYMLFiles = <<>>
  /\ knownConfigFiles = {}
  /\ upgradeTasksMap = <<>>
  /\ failedUpgrades = <<>>
  /\ legacyConfigUpgraderIDs = <<>>
  /\ idx = 1
  /\ unhandledYMLFiles = <<>>
  /\ stdout = <<>>
  /\ result = "running"
  /\ trace = <<>>
  /\ attempts = <<>>
  /\ run = "first"
  /\ start = [dir |-> dir, unreadable |-> unreadable, bak |-> bak]
  /\ first = NoOutcome

\* plugin upgrades: every list of registered tasks, the legacy file and the
\* destination file in their possible states
InitPlugins ==
  /\ upgradeTasks \in TaskLists(PluginTasks) \cup {ChainedTasks}
  /\ \E a \in Opt({EmptyBytes, Doc}), b \in Opt({Doc}) :
       dir = DirOf([n \in {"a.yml", "b.yml", GodelYML} |->
                      IF n = "a.yml" THEN a ELSE IF n = "b.yml" THEN b ELSE {EmptyBytes}])
  /\ unreadable = {}
  /\ dryRunFlagVal \in BOOLEAN
  /\ printContentFlagVal = FALSE
  /\ missingIsEmpty = FALSE

\* the built-in upgrader: every content of exclude.yml and of godel.yml
InitExclude ==
  /\ upgradeTasks \in {<<>>, <<Task("p", "b.yml", "a.yml", "conv")>>,
                       <<Task("p", GodelYML, "a.yml", "conv")>>,
                       <<Task("p", "b.yml", ExcludeYML, "conv")>>}
  /\ \E e \in Opt(ExcludeDocs), g \in Opt(GodelDocs) :
       dir = DirOf([n \in {ExcludeYML, GodelYML, "a.yml"} |->
                      IF n = ExcludeYML THEN e ELSE IF n = GodelYML THEN g ELSE {Doc}])
  /\ unreadable \in {{}} \cup {{f} : f \in DOMAIN dir \cap {ExcludeYML, GodelYML}}
  /\ dryRunFlagVal \in BOOLEAN
  /\ printContentFlagVal \in BOOLEAN
  /\ missingIsEmpty \in IF GodelYML \in DOMAIN dir THEN {FALSE} ELSE BOOLEAN

\* unhandled files: stray YAML files, empty or not, readable or not, next
\* to upgrades that succeed or fail
InitUnhandled ==
  /\ upgradeTasks \in {<<>>, <<Task("p", "b.yml", "a.yml", "conv")>>,
                       <<Task("p", "b.yml", "a.yml", "fail")>>,
                       <<Task("q", "s.yml", "", "conv")>>,
                       <<Task("p", "b.yml", "a.yml", "conv"), Task("q", "s.yml", "r.yml", "conv")>>,
                       <<Task("p", "b.yml", "a.yml", "conv"), Task("q", "b.yml", "r.yml", "conv")>>,
                       <<Task("p", "s.yml", "r.yml", "conv"), Task("p", "a.yml", "a.yml", "conv")>>,
                       <<Task("p", "b.yml", "a.yml", "conv"), Task("p", "s.yml", "r.yml", "conv")>>}
  /\ \E a \in Opt({Doc, BadBytes}), r \in Opt({EmptyBytes, Doc}), s2 \in Opt({EmptyBytes, Doc}),
        e \in Opt({BadBytes}) :
       dir = DirOf([n \in {"a.yml", "r.yml", "s.yml", ExcludeYML} |->
                      IF n = "a.yml" THEN a ELSE IF n = "r.yml" THEN r
                      ELSE IF n = "s.yml" THEN s2 ELSE e])
  /\ unreadable \in SUBSET (DOMAIN dir \cap {"a.yml", "r.yml", "s.yml"})
  /\ dryRunFlagVal \in BOOLEAN
  /\ printContentFlagVal = FALSE
  /\ missingIsEmpty = FALSE

\* no invocation is under way during a migration
InvokeIdle ==
  /\ call = [name |-> <<>>, description |-> "", params |-> <<>>, cfgFileName |-> "",
             global |-> [Debug |-> FALSE, Wrapper |-> <<>>, TaskArgs |-> <<>>],
             cfgDirOK |-> TRUE, child |-> "exit 0"]
  /\ ipc = "idle"
  /\ ti = <<>>
  /\ tiErr = NoErr
  /\ task = <<>>
  /\ cmdArgs = <<>>
  /\ spawned = 0
  /\ resolved = 0
  /\ runErr = <<>>

\* other entries: a file that is not YAML and a subdirectory, next to tasks
\* that name them or not
InitEntries ==
  /\ upgradeTasks \in {<<>>, <<Task("p", "b.yml", "a.yml", "conv")>>,
                       <<Task("p", "b.yml", "notes.txt", "conv")>>,
                       <<Task("p", "notes.txt", "a.yml", "conv")>>,
                       <<Task("p", "b.yml", "sub.yml", "conv")>>,
                       <<Task("p", "sub.yml", "a.yml", "conv")>>}
  /\ \E a \in Opt({Doc}), n2 \in Opt({EmptyBytes, Doc}), d \in Opt({DirMark}), r \in Opt({EmptyBytes}) :
       dir = DirOf([n \in {"a.yml", "notes.txt", "sub.yml", "r.yml"} |->
                      IF n = "a.yml" THEN a ELSE IF n = "notes.txt" THEN n2
                      ELSE IF n = "sub.yml" THEN d ELSE r])
  /\ unreadable = {}
  /\ dryRunFlagVal \in BOOLEAN
  /\ printContentFlagVal = FALSE
  /\ missingIsEmpty = FALSE

Init ==
  (InitPlugins \/ InitExclude \/ InitUnhandled \/ InitEntries) /\ InitRun /\ InvokeIdle /\ PublishIdle

Spec == Init /\ [][Next]_vars

TypeOK ==
  /\ pc \in {"start", "builtin", "collect", "plugins", "report", "done"}
  /\ run \in {"first", "rerun", "reorder", "real"}
  /\ DOMAIN dir \subseteq FileNames
  /\ unreadable \subseteq DOMAIN dir

\* ================================================ plugin task invocation
\* the runes unicode.IsSpace reports as white space
WhiteSpace ==
  {9, 10, 11, 12, 13, 32, 133, 160, 5760} \cup (8192..8202) \cup {8232, 8233, 8239, 8287, 12288}

\* publish.go 409: unicode.IsSpace(r)
IsSpace(r) == r \in WhiteSpace

\* GlobalFlagOptions: the literal of each flag, "" when the task does not accept it
GlobalFlagOpts(d, p, g, c) ==
  [DebugFlag |-> d, ProjectDirFlag |-> p, GodelConfigFlag |-> g, ConfigFlag |-> c]

\* the zero value of godellauncher.GlobalFlagOptions
NoGlobalFlagOpts == GlobalFlagOpts("", "", "", "")

VerifyOpts(flags, ordering, applyTrue, applyFalse) ==
  [VerifyTaskFlags |-> flags, Ordering |-> ordering,
   ApplyTrueArgs |-> applyTrue, ApplyFalseArgs |-> applyFalse]

NoVerifyOpts == VerifyOpts(<<>>, <<>>, <<>>, <<>>)

\* the options of NewTaskInfo; a nil TaskInfoParam has kind "nil"
Param(kind, command, global, verify) ==
  [kind |-> kind, command |-> command, global |-> global, verify |-> verify]

NilParam == Param("nil", <<>>, NoGlobalFlagOpts, NoVerifyOpts)

\* publish.go 363-367
TaskInfoCommand(command) == Param("command", command, NoGlobalFlagOpts, NoVerifyOpts)

\* publish.go 369-378
TaskInfoGlobalFlagOptions(globalFlagOpts) == Param("global", <<>>, globalFlagOpts, NoVerifyOpts)

\* publish.go 380-397
TaskInfoVerifyOptions(verifyOpts) == Param("verify", <<>>, NoGlobalFlagOpts, verifyOpts)

\* an option that leaves alone a field an earlier option has set
ApplyParamUnlessSet(impl, p) ==
  IF p.kind = "command" /\ impl.CommandVar = <<>> THEN [impl EXCEPT !.CommandVar = p.command]
  ELSE IF p.kind = "global" /\ impl.GlobalFlagOptionsVar = <<>>
       THEN [impl EXCEPT !.GlobalFlagOptionsVar = <<p.global>>]
  ELSE IF p.kind = "verify" /\ impl.VerifyOptionsVar = <<>>
       THEN [impl EXCEPT !.VerifyOptionsVar = <<p.verify>>]
  ELSE impl

\* p.apply(impl): the field the option sets; the pointer fields are <<>> when nil
ApplyParam(impl, p) ==
  IF p.kind = "command" THEN [impl EXCEPT !.CommandVar = p.command]
  ELSE IF p.kind = "global" THEN [impl EXCEPT !.GlobalFlagOptionsVar = <<p.global>>]
  ELSE IF p.kind = "verify" THEN [impl EXCEPT !.VerifyOptionsVar = <<p.verify>>]
  ELSE impl

\* publish.go 418-423: the options are applied in order, nil ones skipped
RECURSIVE ApplyParams(_, _)
ApplyParams(impl, params) ==
  IF params = <<>> THEN impl
  ELSE ApplyParams(ApplyParam(impl, Head(params)), Tail(params))

\* publish.go 414-417
BaseTaskInfo(name, description) ==
  [NameVar |-> name, DescriptionVar |-> description, CommandVar |-> <<>>,
   GlobalFlagOptionsVar |-> <<>>, VerifyOptionsVar |-> <<>>]

WhitespaceErr == "task name cannot contain whitespace"

\* NewTaskInfo looking at the first rune of the name only
NewTaskInfoFirstRune(name, description, params) ==
  IF name # <<>> /\ IsSpace(name[1])
  THEN [ti |-> <<>>, err |-> WhitespaceErr]
  ELSE [ti |-> <<ApplyParams(BaseTaskInfo(name, description), params)>>, err |-> NoErr]

\* NewTaskInfo refusing the empty name as well
NewTaskInfoNonEmpty(name, description, params) ==
  IF name = <<>> \/ \E i \in 1..Len(name) : IsSpace(name[i])
  THEN [ti |-> <<>>, err |-> WhitespaceErr]
  ELSE [ti |-> <<ApplyParams(BaseTaskInfo(name, description), params)>>, err |-> NoErr]

\* publish.go 407-424; a name is the sequence of its runes
NewTaskInfo(name, description, params) ==
  IF \E i \in 1..Len(name) : IsSpace(name[i])
  THEN [ti |-> <<>>, err |-> WhitespaceErr]
  ELSE [ti |-> <<ApplyParams(BaseTaskInfo(name, description), params)>>, err |-> NoErr]

\* publish.go 452-467: the Task without its RunImpl closure;
\* toGodelGlobalFlagOptions and toGodelVerifyOptions copy the fields
ToTask(impl, cfgFileName) ==
  [Name |-> impl.NameVar, Description |-> impl.DescriptionVar, ConfigFile |-> cfgFileName,
   Verify |-> impl.VerifyOptionsVar,
   GlobalFlagOpts |-> IF impl.GlobalFlagOptionsVar # <<>>
                      THEN Head(impl.GlobalFlagOptionsVar) ELSE NoGlobalFlagOpts]

\* a path is the sequence of its elements; the empty path is the empty string
\* path.Dir of a relative path
PathDir(p) == IF Len(p) <= 1 THEN <<".">> ELSE SubSeq(p, 1, Len(p) - 1)

\* path.Join(base, name): the cleaned path has no leading "."
PathJoin(base, name) ==
  IF name = "" THEN base ELSE IF base = <<".">> THEN <<name>> ELSE Append(base, name)

\* the string of a path
RECURSIVE PathString(_)
PathString(p) ==
  IF p = <<>> THEN ""
  ELSE IF Len(p) = 1 THEN p[1]
  ELSE p[1] \o "/" \o PathString(Tail(p))

ConfigDirErr == "failed to determine config directory path: "

\* godellauncher.ConfigDirPath(projectDir): the fixed subdirectory of the
\* project directory, or an error
ConfigDirPath(projectDir, ok) ==
  IF ok THEN [cfgDir |-> PathJoin(PathJoin(projectDir, "godel"), "config"), err |-> NoErr]
  ELSE [cfgDir |-> <<>>, err |-> "unable to resolve config directory"]

ArgsRet(args, err, n) == [args |-> args, err |-> err, resolved |-> n]

\* lines 493-495
DebugArgs(t, global) ==
  IF global.Debug /\ t.GlobalFlagOpts.DebugFlag # "" THEN <<t.GlobalFlagOpts.DebugFlag>> ELSE <<>>

\* lines 502-505
ProjectDirArgs(t, global) ==
  IF t.GlobalFlagOpts.ProjectDirFlag # ""
  THEN <<t.GlobalFlagOpts.ProjectDirFlag, PathString(PathDir(global.Wrapper))>> ELSE <<>>

\* lines 517-519
GodelConfigArgs(t, cfgDir) ==
  IF t.GlobalFlagOpts.GodelConfigFlag # ""
  THEN <<t.GlobalFlagOpts.GodelConfigFlag, PathString(PathJoin(cfgDir, GodelYML))>> ELSE <<>>

\* lines 521-523
ConfigArgs(t, cfgDir) ==
  IF t.GlobalFlagOpts.ConfigFlag # "" /\ t.ConfigFile # ""
  THEN <<t.GlobalFlagOpts.ConfigFlag, PathString(PathJoin(cfgDir, t.ConfigFile))>> ELSE <<>>

\* globalFlagArgs going on to the project flags when Wrapper is empty
GlobalFlagArgsWithoutWrapperCheck(t, global, cfgDirOK) ==
  LET args == DebugArgs(t, global) \o ProjectDirArgs(t, global)
  IN IF t.GlobalFlagOpts.GodelConfigFlag = ""
          /\ (t.GlobalFlagOpts.ConfigFlag = "" \/ t.ConfigFile = "")
          THEN ArgsRet(args, NoErr, 0)
          ELSE LET r == ConfigDirPath(PathDir(global.Wrapper), cfgDirOK)
               IN IF r.err # NoErr THEN ArgsRet(<<>>, ConfigDirErr \o r.err, 1)
                  ELSE ArgsRet(args \o GodelConfigArgs(t, r.cfgDir) \o ConfigArgs(t, r.cfgDir), NoErr, 1)

\* globalFlagArgs appending the debug flag after the other flags
GlobalFlagArgsDebugLast(t, global, cfgDirOK) ==
  IF global.Wrapper = <<>> THEN ArgsRet(DebugArgs(t, global), NoErr, 0)
  ELSE LET args == ProjectDirArgs(t, global)
       IN IF t.GlobalFlagOpts.GodelConfigFlag = ""
               /\ (t.GlobalFlagOpts.ConfigFlag = "" \/ t.ConfigFile = "")
          THEN ArgsRet(args \o DebugArgs(t, global), NoErr, 0)
          ELSE LET r == ConfigDirPath(PathDir(global.Wrapper), cfgDirOK)
               IN IF r.err # NoErr THEN ArgsRet(<<>>, ConfigDirErr \o r.err, 1)
                  ELSE ArgsRet(args \o GodelConfigArgs(t, r.cfgDir) \o ConfigArgs(t, r.cfgDir)
                                 \o DebugArgs(t, global), NoErr, 1)

\* globalFlagArgs appending the plugin-config flag before the godel-config flag
GlobalFlagArgsConfigFirst(t, global, cfgDirOK) ==
  IF global.Wrapper = <<>> THEN ArgsRet(DebugArgs(t, global), NoErr, 0)
  ELSE LET args == DebugArgs(t, global) \o ProjectDirArgs(t, global)
       IN IF t.GlobalFlagOpts.GodelConfigFlag = ""
               /\ (t.GlobalFlagOpts.ConfigFlag = "" \/ t.ConfigFile = "")
          THEN ArgsRet(args, NoErr, 0)
          ELSE LET r == ConfigDirPath(PathDir(global.Wrapper), cfgDirOK)
               IN IF r.err # NoErr THEN ArgsRet(<<>>, ConfigDirErr \o r.err, 1)
                  ELSE ArgsRet(args \o ConfigArgs(t, r.cfgDir) \o GodelConfigArgs(t, r.cfgDir), NoErr, 1)

\* globalFlagArgs resolving the config directory before it looks at the flags
GlobalFlagArgsResolvingFirst(t, global, cfgDirOK) ==
  IF global.Wrapper = <<>> THEN ArgsRet(DebugArgs(t, global), NoErr, 0)
  ELSE LET args == DebugArgs(t, global) \o ProjectDirArgs(t, global)
           r == ConfigDirPath(PathDir(global.Wrapper), cfgDirOK)
       IN IF r.err # NoErr THEN ArgsRet(<<>>, ConfigDirErr \o r.err, 1)
          ELSE IF t.GlobalFlagOpts.GodelConfigFlag = ""
                    /\ (t.GlobalFlagOpts.ConfigFlag = "" \/ t.ConfigFile = "")
               THEN ArgsRet(args, NoErr, 1)
               ELSE ArgsRet(args \o GodelConfigArgs(t, r.cfgDir) \o ConfigArgs(t, r.cfgDir), NoErr, 1)

\* lines 491-526; Wrapper is a path, <<>> when it is the empty string
GlobalFlagArgs(t, global, cfgDirOK) ==
  IF global.Wrapper = <<>> THEN ArgsRet(DebugArgs(t, global), NoErr, 0)
  ELSE LET args == DebugArgs(t, global) \o ProjectDirArgs(t, global)
       IN IF t.GlobalFlagOpts.GodelConfigFlag = ""
               /\ (t.GlobalFlagOpts.ConfigFlag = "" \/ t.ConfigFile = "")
          THEN ArgsRet(args, NoErr, 0)
          ELSE LET r == ConfigDirPath(PathDir(global.Wrapper), cfgDirOK)
               IN IF r.err # NoErr THEN ArgsRet(<<>>, ConfigDirErr \o r.err, 1)
                  ELSE ArgsRet(args \o GodelConfigArgs(t, r.cfgDir) \o ConfigArgs(t, r.cfgDir), NoErr, 1)

\* the ways cmd.Run ends: the exit status of the child, or the failure to
\* start or to run it
ChildOutcomes == {"exit 0", "exit 1", "exit 2", "not found", "permission denied", "i/o failure"}

ExitErrors == {"exit 1", "exit 2"}

\* RunError wrapping the exit status of the child like any other failure
RunErrorWrappingExit(outcome) ==
  IF outcome = "exit 0" THEN <<>>
  ELSE <<"plugin execution failed: " \o outcome>>

\* lines 478-486: the error RunImpl returns for the way cmd.Run ended
RunError(outcome) ==
  IF outcome = "exit 0" THEN <<>>
  ELSE IF outcome \in ExitErrors THEN <<"">>
  ELSE <<"plugin execution failed: " \o outcome>>

\* ------------------------------------------------------ invocation steps
\* NewTaskInfo(name, description, params...)
Construct ==
  /\ ipc = "new"
  /\ LET r == NewTaskInfo(call.name, call.description, call.params)
     IN /\ ti' = r.ti
        /\ tiErr' = r.err
        /\ ipc' = IF r.err # NoErr THEN "done" ELSE "totask"
  /\ UNCHANGED <<call, task, cmdArgs, spawned, resolved, runErr>>
  /\ UNCHANGED vars
  /\ UNCHANGED pvars

\* ti.toTask(pluginExecPath, cfgFileName)
ToTaskStep ==
  /\ ipc = "totask"
  /\ task' = <<ToTask(Head(ti), call.cfgFileName)>>
  /\ ipc' = "runimpl"
  /\ UNCHANGED <<call, ti, tiErr, cmdArgs, spawned, resolved, runErr>>
  /\ UNCHANGED vars
  /\ UNCHANGED pvars

\* lines 468-474: RunImpl builds the argv, or returns the error of globalFlagArgs
RunImpl ==
  /\ ipc = "runimpl"
  /\ LET r == GlobalFlagArgs(Head(task), call.global, call.cfgDirOK)
     IN /\ resolved' = resolved + r.resolved
        /\ IF r.err # NoErr
           THEN /\ runErr' = <<r.err>>
                /\ cmdArgs' = cmdArgs
                /\ ipc' = "done"
           ELSE /\ cmdArgs' = r.args \o Head(ti).CommandVar \o call.global.TaskArgs
                /\ runErr' = runErr
                /\ ipc' = "cmdrun"
  /\ UNCHANGED <<call, ti, tiErr, task, spawned>>
  /\ UNCHANGED vars
  /\ UNCHANGED pvars

\* lines 475-486: cmd.Run starts the plugin, waits for it, and RunImpl returns
CmdRun ==
  /\ ipc = "cmdrun"
  /\ spawned' = spawned + 1
  /\ runErr' = RunError(call.child)
  /\ ipc' = "done"
  /\ UNCHANGED <<call, ti, tiErr, task, cmdArgs, resolved>>
  /\ UNCHANGED vars
  /\ UNCHANGED pvars

NextInvoke == Construct \/ ToTaskStep \/ RunImpl \/ CmdRun

\* ------------------------------------------- initial states, invocation
\* tab, space, '-', 'a', no-break space, zero width space (not white space),
\* ideographic space
Runes == {9, 32, 45, 97, 160, 8203, 12288}

Names == UNION {[1..n -> Runes] : n \in 0..MaxNameLen}

AllFlags == GlobalFlagOpts("--debug", "--project-dir", "--godel-config", "--config")

FlagOpts ==
  {GlobalFlagOpts(d, p, g, c) :
     d \in {"", "--debug"}, p \in {"", "--project-dir"},
     g \in {"", "--godel-config"}, c \in {"", "--config"}}

SomeVerifyOpts == VerifyOpts(<<"strict">>, <<1>>, <<"--apply">>, <<"--verify">>)

Params ==
  {NilParam, TaskInfoCommand(<<>>), TaskInfoCommand(<<"run">>), TaskInfoCommand(<<"run", "--debug">>),
   TaskInfoGlobalFlagOptions(AllFlags), TaskInfoGlobalFlagOptions(GlobalFlagOpts("-d", "", "", "")),
   TaskInfoVerifyOptions(SomeVerifyOpts), TaskInfoVerifyOptions(NoVerifyOpts)}

ParamLists == UNION {[1..n -> Params] : n \in 0..MaxParams}

Global(debug, wrapper, taskArgs) == [Debug |-> debug, Wrapper |-> wrapper, TaskArgs |-> taskArgs]

Wrappers == {<<>>, <<"godelw">>, <<"proj", "godelw">>, <<"work", "proj", "godelw">>}

TaskArgLists == {<<>>, <<"--debug">>, <<"--config", "x.yml">>}

Call(name, description, params, cfgFileName, global, cfgDirOK, child) ==
  [name |-> name, description |-> description, params |-> params, cfgFileName |-> cfgFileName,
   global |-> global, cfgDirOK |-> cfgDirOK, child |-> child]

\* every name, with and without options
InitNames ==
  \E name \in Names, description \in {"", "runs the task"},
     params \in {<<>>, <<TaskInfoCommand(<<"run">>), TaskInfoGlobalFlagOptions(AllFlags)>>} :
    call = Call(name, description, params, "plugin.yml",
                Global(TRUE, <<"proj", "godelw">>, <<>>), TRUE, "exit 0")

\* every list of options
InitParams ==
  \E params \in ParamLists :
    call = Call(<<97>>, "", params, "plugin.yml", Global(TRUE, <<"godelw">>, <<"x">>), TRUE, "exit 0")

\* every set of accepted flags under every global configuration and every
\* way the child ends; a descriptor without global flag options as well
InitArgs ==
  \E globalParams \in {<<>>} \cup {<<TaskInfoGlobalFlagOptions(o)>> : o \in FlagOpts},
     command \in {<<>>, <<"run", "--debug">>}, cfgFileName \in {"", "plugin.yml"},
     debug \in BOOLEAN, wrapper \in Wrappers, taskArgs \in TaskArgLists,
     cfgDirOK \in BOOLEAN, child \in ChildOutcomes :
    /\ (child # "exit 0" => (taskArgs = <<>> /\ command = <<>>))
    /\ call = Call(<<97>>, "", <<TaskInfoCommand(command)>> \o globalParams, cfgFileName,
                   Global(debug, wrapper, taskArgs), cfgDirOK, child)

InvokeStart ==
  /\ ipc = "new"
  /\ ti = <<>>
  /\ tiErr = NoErr
  /\ task = <<>>
  /\ cmdArgs = <<>>
  /\ spawned = 0
  /\ resolved = 0
  /\ runErr = <<>>

\* no migration is under way during an invocation
MigrationIdle ==
  /\ upgradeTasks = <<>>
  /\ dir = <<>>
  /\ unreadable = {}
  /\ dryRunFlagVal = FALSE
  /\ printContentFlagVal = FALSE
  /\ missingIsEmpty = FALSE
  /\ InitRun

InitInvoke == (InitNames \/ InitParams \/ InitArgs) /\ InvokeStart /\ MigrationIdle /\ PublishIdle

SpecInvoke == InitInvoke /\ [][NextInvoke]_ivars

\* ============================================== distgo publish: checksums
\* lines 196-198
NonEmptyEqual(s1, s2) == s1 # "" /\ s2 # "" /\ s1 = s2

\* nonEmptyDiffer taking an empty side for a difference
NonEmptyDifferOrEmpty(s1, s2) == s1 # s2

\* lines 200-202
NonEmptyDiffer(s1, s2) == s1 # "" /\ s2 # "" /\ s1 # s2

\* lines 180-194: func (c checksums) match(other checksums) bool
Match(c, other) ==
  LET nonEmptyEqual == \/ NonEmptyEqual(c.MD5, other.MD5)
                       \/ NonEmptyEqual(c.SHA1, other.SHA1)
                       \/ NonEmptyEqual(c.SHA256, other.SHA256)
  IN IF ~nonEmptyEqual THEN FALSE
     ELSE IF \/ NonEmptyDiffer(c.MD5, other.MD5)
             \/ NonEmptyDiffer(c.SHA1, other.SHA1)
             \/ NonEmptyDiffer(c.SHA256, other.SHA256)
          THEN FALSE
          ELSE TRUE

\* c.match(other)
MatchStep ==
  /\ mpc = "start"
  /\ matchRet' = Match(matchCall.c, matchCall.other)
  /\ mpc' = "matched"
  /\ UNCHANGED <<matchCall, backRet>>
  /\ UNCHANGED rvars
  /\ UNCHANGED vars
  /\ UNCHANGED ivars

\* other.match(c)
MatchBack ==
  /\ mpc = "matched"
  /\ backRet' = Match(matchCall.other, matchCall.c)
  /\ mpc' = "done"
  /\ UNCHANGED <<matchCall, matchRet>>
  /\ UNCHANGED rvars
  /\ UNCHANGED vars
  /\ UNCHANGED ivars

NextChecksums == MatchStep \/ MatchBack

\* a checksum that was not computed, or one of two digests
Digests == {"", "0a", "ff"}

AllChecksums == {Checksums(s1, s256, m) : s1 \in Digests, s256 \in Digests, m \in Digests}

MatchStart ==
  /\ matchCall \in [c : AllChecksums, other : AllChecksums]
  /\ mpc = "start"
  /\ matchRet = FALSE
  /\ backRet = FALSE

InitChecksums == MatchStart /\ RunIdle /\ MigrationIdle /\ InvokeIdle

SpecChecksums == InitChecksums /\ [][NextChecksums]_pvars

\* ==================================================== distgo publish: Run
MaxDists == 2

\* lines 144-155: packagingType
PackagingType(distType) ==
  IF distType = "sls" THEN [out |-> "sls.tgz", err |-> NoErr]
  ELSE IF distType = "bin" THEN [out |-> "tgz", err |-> NoErr]
  ELSE IF distType = "rpm" THEN [out |-> "rpm", err |-> NoErr]
  ELSE [out |-> "", err |-> "unknown dist type: " \o distType]

\* lines 114-142: productPath fails on an unknown type of distribution and
\* when the POM file cannot be written
ProductPath(distCfg) ==
  IF PackagingType(distCfg.type).err # NoErr THEN PackagingType(distCfg.type).err
  ELSE IF ~distCfg.pomOK THEN "failed to write POM file"
  ELSE NoErr

\* the Almanac publish wanted whatever URL Publish returned
AlmanacWantedForAnyURL(almanacInfo, url) == almanacInfo

\* line 84: almanacInfo != nil && artifactURL != ""
AlmanacWanted(almanacInfo, url) == almanacInfo /\ url # ""

CurrDistCfg == publishCall.dists[distIdx]

\* a call Run made for distribution i, and whether it returned without error
Called(op, i, ok) == [op |-> op, dist |-> i, ok |-> ok]

\* lines 67 and 90: the loop is over, Run returns nil
ReturnNil ==
  /\ rpc = "stat"
  /\ distIdx > Len(publishCall.dists)
  /\ publishRet' = "nil"
  /\ rpc' = "done"
  /\ UNCHANGED <<publishCall, distIdx, artifactURL, published>>
  /\ UNCHANGED mvars
  /\ UNCHANGED vars
  /\ UNCHANGED ivars

\* lines 68-72: os.Stat of the artifact of the current distribution
StatArtifact ==
  /\ rpc = "stat"
  /\ distIdx <= Len(publishCall.dists)
  /\ published' = Append(published, Called("stat", distIdx, CurrDistCfg.exists))
  /\ IF ~CurrDistCfg.exists
     THEN publishRet' = "distribution does not exist" /\ rpc' = "done"
     ELSE publishRet' = publishRet /\ rpc' = "paths"
  /\ UNCHANGED <<publishCall, distIdx, artifactURL>>
  /\ UNCHANGED mvars
  /\ UNCHANGED vars
  /\ UNCHANGED ivars

\* lines 74-77
ProductPathStep ==
  /\ rpc = "paths"
  /\ published' = Append(published, Called("paths", distIdx, ProductPath(CurrDistCfg) = NoErr))
  /\ IF ProductPath(CurrDistCfg) # NoErr
     THEN /\ publishRet' = "failed to determine product paths: " \o ProductPath(CurrDistCfg)
          /\ rpc' = "done"
     ELSE publishRet' = publishRet /\ rpc' = "publish"
  /\ UNCHANGED <<publishCall, distIdx, artifactURL>>
  /\ UNCHANGED mvars
  /\ UNCHANGED vars
  /\ UNCHANGED ivars

\* lines 79-84: publisher.Publish, and where Run goes from there
PublishStep ==
  /\ rpc = "publish"
  /\ published' = Append(published, Called("publish", distIdx, ~CurrDistCfg.publish.err))
  /\ artifactURL' = CurrDistCfg.publish.url
  /\ IF CurrDistCfg.publish.err
     THEN publishRet' = "Publish failed" /\ rpc' = "done" /\ distIdx' = distIdx
     ELSE /\ publishRet' = publishRet
          /\ IF AlmanacWanted(publishCall.almanacInfo, CurrDistCfg.publish.url)
             THEN rpc' = "almanac" /\ distIdx' = distIdx
             ELSE rpc' = "stat" /\ distIdx' = distIdx + 1
  /\ UNCHANGED publishCall
  /\ UNCHANGED mvars
  /\ UNCHANGED vars
  /\ UNCHANGED ivars

\* lines 85-88: almanacPublish
AlmanacPublishStep ==
  /\ rpc = "almanac"
  /\ published' = Append(published, Called("almanac", distIdx, CurrDistCfg.almanacOK))
  /\ IF ~CurrDistCfg.almanacOK
     THEN publishRet' = "Almanac publish failed" /\ rpc' = "done" /\ distIdx' = distIdx
     ELSE publishRet' = publishRet /\ rpc' = "stat" /\ distIdx' = distIdx + 1
  /\ UNCHANGED <<publishCall, artifactURL>>
  /\ UNCHANGED mvars
  /\ UNCHANGED vars
  /\ UNCHANGED ivars

NextPublish == ReturnNil \/ StatArtifact \/ ProductPathStep \/ PublishStep \/ AlmanacPublishStep

\* what publisher.Publish returns: a URL or none, with or without an error
PublishOutcomes == [url : {"", "https://repo/a"}, err : BOOLEAN]

Dist(exists, type, pomOK, publish, almanacOK) ==
  [exists |-> exists, type |-> type, pomOK |-> pomOK, publish |-> publish, almanacOK |-> almanacOK]

\* distributions that are built and have their paths: every outcome of the
\* two publishes
DistsToPublish == {Dist(TRUE, "sls", TRUE, pb, a) : pb \in PublishOutcomes, a \in BOOLEAN}

\* distributions built or not, of every type, with or without a POM file
\* written, whose publishes succeed
DistsToFind ==
  {Dist(e, t, pm, [url |-> "https://repo/a", err |-> FALSE], TRUE) :
     e \in BOOLEAN, t \in {"sls", "bin", "rpm", "docker"}, pm \in BOOLEAN}

DistLists(D) == UNION {[1..n -> D] : n \in 0..MaxDists}

RunStart ==
  /\ publishCall \in [dists : DistLists(DistsToPublish) \cup DistLists(DistsToFind), almanacInfo : BOOLEAN]
  /\ rpc = "stat"
  /\ distIdx = 1
  /\ artifactURL = ""
  /\ published = <<>>
  /\ publishRet = "running"

InitPublish == RunStart /\ MatchIdle /\ MigrationIdle /\ InvokeIdle

SpecPublish == InitPublish /\ [][NextPublish]_pvars

\* ================================================================ claims
\* the indices of the events of tr that changed the directory
Mutations(tr) == {i \in 1..Len(tr) : tr[i].op \in {"backup", "write"} /\ tr[i].real}
Calls(tr, op) == {i \in 1..Len(tr) : tr[i].op = op}

\* C1: a run with dry-run set leaves the set of files of the config
\* directory and the bytes of every file as they were before the run: no
\* write and no backup is performed by the built-in upgrader, by a plugin
\* upgrade or by the processing of the unhandled files.
C1_DryRunPurity ==
  dryRunFlagVal =>
    /\ dir = start.dir
    /\ bak = start.bak
    /\ Mutations(trace) = {}

\* a finished dry run in which the built-in upgrader or a plugin upgrade would
\* have backed up a file and written one
C1_Witness ==
  /\ dryRunFlagVal
  /\ pc = "done"
  /\ Calls(trace, "backup") # {}
  /\ Calls(trace, "write") # {}

\* the files an upgrader takes its input from
UpgraderInputs(tasks) ==
  {ExcludeYML, GodelYML} \cup ({tasks[i].LegacyConfigFile : i \in 1..Len(tasks)} \ {""})

\* C2 as claimed: for every directory and every list of tasks, the second
\* real run on the directory the first one left creates no backup and writes
\* no file.
C2_IdempotenceClaimed == (run = "rerun") => Mutations(trace) = {}

\* C2 as amended: the second real run creates no backup and writes no file
\* provided no task's ConfigFile is the name of a file an upgrader reads its
\* input from (exclude.yml, godel.yml, the LegacyConfigFile of a task).
C2_Idempotence ==
  (run = "rerun" /\ TaskConfigFiles(upgradeTasks) \cap UpgraderInputs(upgradeTasks) = {})
    => Mutations(trace) = {}

\* a finished second run after a first run that backed up and wrote files
C2_Witness ==
  /\ run = "rerun"
  /\ pc = "done"
  /\ TaskConfigFiles(upgradeTasks) \cap UpgraderInputs(upgradeTasks) = {}
  /\ \E i, j \in Mutations(first.trace) : first.trace[i].op = "backup" /\ first.trace[j].op = "write"
  /\ \E i \in 1..Len(upgradeTasks) : upgradeTasks[i].LegacyConfigFile # ""

\* C3: the same tasks registered in another order give the same
\* knownConfigFiles, the same applied upgrades (transforms, backups, writes
\* and their bytes, hence the same directory) and the same failures in the
\* same order.
C3_OrderIndependent ==
  (run = "reorder" /\ pc = "done") =>
    /\ knownConfigFiles = first.known
    /\ trace = first.trace
    /\ dir = first.dir
    /\ bak = first.bak
    /\ failedUpgrades = first.failed

\* the attempts before the unhandled pass that failed
FailedAttempts == {i \in 1..Len(attempts) : attempts[i].who # "unhandled" /\ attempts[i].failed}

\* C4: a failed upgrade (built-in or plugin) adds exactly one entry to
\* failedUpgrades and does not stop the run: once the upgrader passes are
\* over, every built-in upgrader and every pending task has been attempted,
\* in order, the unhandled pass has run, and failedUpgrades has one entry per
\* failed attempt.
C4_FailureDoesNotStop ==
  /\ Len(failedUpgrades) = Cardinality(FailedAttempts)
  /\ pc \in {"report", "done"} =>
       LET pending == PendingIDs(upgradeTasks)
           n == Len(HardCodedLegacyUpgraders)
       IN /\ Len(attempts) = n + Len(pending) + 1
          /\ \A i \in 1..n : attempts[i].who = HardCodedLegacyUpgraders[i]
          /\ \A i \in 1..Len(pending) : attempts[n + i].who = pending[i]
          /\ attempts[Len(attempts)].who = "unhandled"

\* a finished run in which an upgrade failed and a later one was attempted
C4_Witness ==
  /\ pc = "done"
  /\ \E i \in FailedAttempts : \E j \in (i + 1)..Len(attempts) : attempts[j].who # "unhandled"
  /\ attempts[Len(attempts)].who = "unhandled"

ReportPrinted == \E i \in 1..Len(stdout) : stdout[i].msg = "Failed to upgrade configuration:"

\* C5: the processing of the unhandled files never fails the run: a run
\* ends with success or with the empty error of the aggregated report, and
\* when failedUpgrades is not empty the report has been printed.
C5_UnhandledIsAdvisory ==
  pc = "done" =>
    /\ result \in {"nil", "error:"}
    /\ (failedUpgrades # <<>> => ReportPrinted)

\* C6: at the end of a run every file an upgrade wrote into the directory
\* is in knownConfigFiles.
C6_WrittenFilesKnown ==
  pc = "done" =>
    \A i \in Mutations(trace) : trace[i].op = "write" => trace[i].file \in knownConfigFiles

\* C7: a YAML file present at the start whose name never enters
\* knownConfigFiles is not deleted or rewritten: a non-empty one is still at
\* its path with its bytes when the run ends, an empty one is at most backed
\* up.
C7_UnknownFilesUntouched ==
  (pc = "done" /\ run # "rerun") =>
    \A f \in (DOMAIN start.dir) \ knownConfigFiles :
      /\ start.dir[f] # EmptyBytes => (f \in DOMAIN dir /\ dir[f] = start.dir[f])
      /\ \A i \in Mutations(trace) : trace[i].file = f => trace[i].op = "backup"

NewLines == SubSeq(stdout', Len(stdout) + 1, Len(stdout'))
NewEvents == SubSeq(trace', Len(trace) + 1, Len(trace'))
Warnings(lines) == {i \in 1..Len(lines) : lines[i].msg = "WARNING"}

\* C8: in the unhandled pass every empty unhandled file is backed up and not
\* named in a warning, every non-empty one is left in place, and there is
\* exactly one warning, naming all the non-empty unhandled files, when there
\* is one, and none otherwise.
C8_UnhandledPass ==
  [][(pc = "plugins" /\ pc' # "plugins") =>
       LET U == Range(Unhandled(originalYMLFiles, knownConfigFiles))
           empty == {f \in U : dir[f] = EmptyBytes}
           nonEmpty == U \ empty
       IN /\ \A f \in empty :
               /\ \E i \in 1..Len(NewEvents) : NewEvents[i].op = "backup" /\ NewEvents[i].file = f
               /\ \A i \in Warnings(NewLines) : f \notin Range(NewLines[i].files)
          /\ \A f \in nonEmpty : f \in DOMAIN dir' /\ dir'[f] = dir[f]
          /\ Cardinality(Warnings(NewLines)) = IF nonEmpty = {} THEN 0 ELSE 1
          /\ \A i \in Warnings(NewLines) : Range(NewLines[i].files) = nonEmpty]_vars

\* the pending task of the next Plugin step
CurrentTask == upgradeTasksMap[legacyConfigUpgraderIDs[idx]]

\* the next Plugin step finds the legacy file and the transform returns no
\* bytes and no error
EmptyTransformCase ==
  /\ pc = "plugins"
  /\ idx <= Len(legacyConfigUpgraderIDs)
  /\ Exists(FS, CurrentTask.LegacyConfigFile)
  /\ ~ReadFails(FS, CurrentTask.LegacyConfigFile)
  /\ YAMLValid(dir[CurrentTask.LegacyConfigFile])
  /\ ~Transform(CurrentTask.Run, PrependMarker(dir[CurrentTask.LegacyConfigFile])).err
  /\ Transform(CurrentTask.Run, PrependMarker(dir[CurrentTask.LegacyConfigFile])).out = EmptyBytes

\* a Plugin step in the EmptyTransformCase writes nothing, backs up the
\* legacy file and records no failure
EmptyTransformStep ==
  (EmptyTransformCase /\ idx' = idx + 1) =>
    /\ \A i \in 1..Len(NewEvents) : NewEvents[i].op # "write"
    /\ ~dryRunFlagVal => CurrentTask.ConfigFile \notin DOMAIN dir'
    /\ \E i \in 1..Len(NewEvents) :
         /\ NewEvents[i].op = "backup"
         /\ NewEvents[i].file = CurrentTask.LegacyConfigFile
         /\ NewEvents[i].bytes = dir[CurrentTask.LegacyConfigFile]
    /\ ~dryRunFlagVal => CurrentTask.LegacyConfigFile \notin DOMAIN dir'
    /\ failedUpgrades' = failedUpgrades

\* a finished run in which no upgrade failed and the unhandled pass returned
\* no error reports success
SuccessWhenNothingFailed ==
  (pc = "done" /\ failedUpgrades = <<>> /\ ~attempts[Len(attempts)].failed) => result = "nil"

\* C9: when the legacy file of a task exists and the transform returns empty
\* bytes without error, nothing is written at the ConfigFile path, the legacy
\* file is backed up (gone from its path in a real run) and the task adds no
\* entry to failedUpgrades, so that the run reports success when nothing else
\* failed.
C9_EmptyTransform == [][EmptyTransformStep]_vars /\ []SuccessWhenNothingFailed

\* a real run that ended in success after a transform returned empty bytes
\* for an existing legacy file, whose destination file existed
C9_Witness ==
  /\ pc = "done"
  /\ run = "first"
  /\ ~dryRunFlagVal
  /\ result = "nil"
  /\ \E i \in 1..Len(upgradeTasks) :
       /\ upgradeTasks[i].Run = "empty"
       /\ upgradeTasks[i].LegacyConfigFile # upgradeTasks[i].ConfigFile
       /\ {upgradeTasks[i].LegacyConfigFile, upgradeTasks[i].ConfigFile} \subseteq DOMAIN start.dir
       /\ \E j \in Calls(trace, "run") : trace[j].who = upgradeTasks[i].ID
       /\ upgradeTasks[i].ConfigFile \notin DOMAIN dir
       /\ upgradeTasks[i].LegacyConfigFile \notin DOMAIN dir

\* the next step is the built-in upgrader in a real run, exclude.yml exists
\* and parses and godel.yml is readable
ExcludeUpgradeCase ==
  /\ pc = "builtin"
  /\ ~dryRunFlagVal
  /\ Exists(FS, ExcludeYML)
  /\ ~ReadFails(FS, ExcludeYML)
  /\ StrictNamesPathsValid(dir[ExcludeYML])
  /\ Exists(FS, GodelYML)
  /\ ~ReadGodelConfigFromFile(FS, GodelYML, missingIsEmpty).err

\* C10: after the built-in upgrade of a real run in which exclude.yml
\* exists and parses and godel.yml is readable, every name of exclude.yml is
\* among the exclude names of godel.yml, exclude.yml is gone from its path
\* and no failure is reported for it.
C10_ExcludeNames ==
  [][(ExcludeUpgradeCase /\ pc' = "collect") =>
       /\ Range(NamesPathsCfg(dir[ExcludeYML]).Names) \subseteq Range(NamesPathsCfg(dir'[GodelYML]).Names)
       /\ ExcludeYML \notin DOMAIN dir'
       /\ failedUpgrades' = failedUpgrades]_vars

\* C11: the built-in exclude upgrade is lossless and list-respecting: after
\* it, the exclude names of godel.yml are the previous names followed by the
\* legacy names not already present, and the exclude paths are the previous
\* paths followed by the legacy paths not already present.
C11_ExcludeMergeLossless ==
  [][(ExcludeUpgradeCase /\ pc' = "collect") =>
       LET prev == NamesPathsCfg(dir[GodelYML])
           legacy == NamesPathsCfg(dir[ExcludeYML])
           now == NamesPathsCfg(dir'[GodelYML])
       IN /\ now.Names = prev.Names \o SelectSeq(legacy.Names, LAMBDA n : n \notin Range(prev.Names))
          /\ now.Paths = prev.Paths \o SelectSeq(legacy.Paths, LAMBDA n : n \notin Range(prev.Paths))]_vars

\* the lines of the aggregated report: the banner and one line per failure
ReportLines ==
  <<DryRunLine(dryRunFlagVal, "Failed to upgrade configuration:")>>
    \o [i \in 1..Len(failedUpgrades) |->
          [dry |-> dryRunFlagVal, msg |-> failedUpgrades[i].err,
           files |-> <<failedUpgrades[i].file>>, bytes |-> <<>>]]

\* C17: a run returns a failure with empty message, having printed one
\* report line per entry of failedUpgrades in the order of the failures, if
\* and only if failedUpgrades is not empty; otherwise it returns success.
C17_RunOutcome ==
  pc = "done" =>
    IF failedUpgrades # <<>>
    THEN /\ result = "error:"
         /\ Len(stdout) >= Len(ReportLines)
         /\ SubSeq(stdout, Len(stdout) - Len(ReportLines) + 1, Len(stdout)) = ReportLines
    ELSE result = "nil"

\* the place of an event in the order of a run: the built-in upgraders, the
\* plugin tasks by ID, the unhandled pass
Phase(who) ==
  IF who \in Range(HardCodedLegacyUpgraders) THEN 0
  ELSE IF who \in TaskIDs THEN Rank(IDOrder, who)
  ELSE Len(IDOrder) + 1

\* C19: the plugin tasks with a legacy file are processed in ascending order
\* of their ID, after the built-in upgraders: every transform, backup and
\* write of a task comes after those of the built-in upgraders and of every
\* task whose ID sorts before its own, whatever the registration order.
C19_SortedByID ==
  /\ \A i, j \in 1..Len(trace) : i < j => Phase(trace[i].who) <= Phase(trace[j].who)
  /\ \A i, j \in 1..Len(attempts) : i < j => Phase(attempts[i].who) <= Phase(attempts[j].who)

\* a finished run of two tasks registered in descending order of ID, each of
\* which transformed, backed up and wrote
C19_Witness ==
  /\ pc = "done"
  /\ Len(upgradeTasks) >= 2
  /\ Rank(IDOrder, upgradeTasks[1].ID) > Rank(IDOrder, upgradeTasks[2].ID)
  /\ \A k \in 1..2 : \A op \in {"run", "backup", "write"} :
       \E i \in Calls(trace, op) : trace[i].who = upgradeTasks[k].ID

\* the transforms a run invoked: the task, the legacy file and the input bytes
Transforms(tr) ==
  [i \in 1..Len(SelectSeq(tr, LAMBDA e : e.op = "run")) |->
     [who |-> SelectSeq(tr, LAMBDA e : e.op = "run")[i].who,
      file |-> SelectSeq(tr, LAMBDA e : e.op = "run")[i].file,
      bytes |-> SelectSeq(tr, LAMBDA e : e.op = "run")[i].bytes]]

\* a real run has finished after a dry run of the same tasks on the same directory
DryThenReal == run = "real" /\ pc = "done"

SameTransformsAndFailures ==
  /\ Transforms(trace) = Transforms(first.trace)
  /\ failedUpgrades = first.failed

\* C18 as stated: for the same initial directory and the same tasks, the dry
\* run and the real run invoke the same transforms on the same input bytes
\* and end with the same failedUpgrades entries in the same order.
C18_DryRealSameClaimed == DryThenReal => SameTransformsAndFailures
\* the tasks the plugin loop hands to upgradeLegacyConfig, in order
Performed == [k \in 1..Len(legacyConfigUpgraderIDs) |-> upgradeTasksMap[legacyConfigUpgraderIDs[k]]]

\* no upgrade reads a file that an earlier step of the run moves or writes:
\* the legacy files of the upgrades performed differ from one another and
\* from exclude.yml and godel.yml, and none is the ConfigFile of an upgrade
\* performed before
SeparateInputs ==
  \A k \in 1..Len(Performed) :
    /\ Performed[k].LegacyConfigFile \notin {ExcludeYML, GodelYML}
    /\ \A m \in 1..(k - 1) :
         /\ Performed[m].LegacyConfigFile # Performed[k].LegacyConfigFile
         /\ Performed[m].ConfigFile # Performed[k].LegacyConfigFile

\* C18 as amended: the dry run and the real run invoke the same transforms on
\* the same input bytes and end with the same failedUpgrades, provided the
\* legacy files of the upgrades performed differ from one another and from
\* exclude.yml and godel.yml, and none is the ConfigFile of an upgrade
\* performed before.
C18_DryRealSame == (DryThenReal /\ SeparateInputs) => SameTransformsAndFailures

\* a real run after a dry run, both of which transformed a legacy file and
\* recorded a failure, next to a task without a legacy file
C18_Witness ==
  /\ DryThenReal
  /\ SeparateInputs
  /\ Len(upgradeTasks) >= 2
  /\ Transforms(trace) # <<>>
  /\ failedUpgrades # <<>>

\* NewTaskInfo has returned
Constructed == ipc \in {"totask", "runimpl", "cmdrun", "done"}

HasWhitespace(name) == \E i \in 1..Len(name) : name[i] \in WhiteSpace

\* C12: NewTaskInfo returns a validation error for every name that contains
\* at least one white space character and succeeds for every name that
\* contains none, whatever the description and the options.
C12_WhitespaceRejected ==
  Constructed =>
    /\ HasWhitespace(call.name) => (tiErr = WhitespaceErr /\ ti = <<>>)
    /\ ~HasWhitespace(call.name) => (tiErr = NoErr /\ ti # <<>>)

\* a name refused for a white space that is not its first rune, options given
C12_Witness ==
  /\ Constructed
  /\ Len(call.name) = 2
  /\ call.name[1] \notin WhiteSpace
  /\ call.name[2] \in WhiteSpace
  /\ call.params # <<>>
  /\ call.description # ""
  /\ tiErr # NoErr

\* C13 as stated: every descriptor construction returns has a non-empty
\* Name; NewTaskInfo fails on the empty name.
C13_NameNonEmptyClaimed ==
  Constructed =>
    /\ ti # <<>> => Head(ti).NameVar # <<>>
    /\ call.name = <<>> => tiErr # NoErr

\* C13 as amended: every descriptor construction returns has the name it was
\* given, which contains no white space; the empty name is accepted and gives
\* a descriptor whose Name is empty.
C13_NameWithoutWhitespace ==
  Constructed =>
    /\ ti # <<>> => (Head(ti).NameVar = call.name /\ ~HasWhitespace(Head(ti).NameVar))
    /\ call.name = <<>> => (tiErr = NoErr /\ ti # <<>> /\ Head(ti).NameVar = <<>>)

\* the empty name has been accepted and the descriptor turned into a task
C13_Witness ==
  /\ ipc = "runimpl"
  /\ call.name = <<>>
  /\ Head(task).Name = <<>>

\* RunImpl has built the argv it hands to the plugin
ArgvBuilt == ipc = "cmdrun" \/ spawned > 0

RECURSIVE Count(_, _)
Count(x, seq) ==
  IF seq = <<>> THEN 0 ELSE (IF Head(seq) = x THEN 1 ELSE 0) + Count(x, Tail(seq))

\* the tokens that do not come from argument construction
CommandAndTaskArgs == Head(ti).CommandVar \o call.global.TaskArgs

\* C14: when Debug is true and the task has a non-empty debug flag literal,
\* that literal is the first element of the argv, for every Wrapper, every
\* other flag option, Command and TaskArgs; when Debug is false or the literal
\* is empty, argument construction does not add the literal.
C14_DebugFlagFirst ==
  ArgvBuilt =>
    LET lit == Head(task).GlobalFlagOpts.DebugFlag
    IN IF call.global.Debug /\ lit # ""
       THEN /\ cmdArgs # <<>>
            /\ cmdArgs[1] = lit
            /\ Count(lit, cmdArgs) = 1 + Count(lit, CommandAndTaskArgs)
       ELSE Count(lit, cmdArgs) = Count(lit, CommandAndTaskArgs)

\* the debug flag heads an argv that has every other flag, a Command and
\* TaskArgs that hold the literal themselves
C14_Witness ==
  /\ ArgvBuilt
  /\ call.global.Debug
  /\ Head(task).GlobalFlagOpts = AllFlags
  /\ call.global.Wrapper # <<>>
  /\ call.cfgFileName # ""
  /\ Count("--debug", CommandAndTaskArgs) = 2
  /\ cmdArgs[1] = "--debug"
  /\ Len(cmdArgs) = 10

\* C15: when Wrapper is empty the argv is only the optional debug flag, the
\* Command tokens and the TaskArgs: it has no project-dir, godel-config or
\* plugin-config flag and no path, whatever flags the descriptor accepts and
\* whatever the config file name is.
C15_NoWrapperNoProjectFlags ==
  (ArgvBuilt /\ call.global.Wrapper = <<>>) =>
    LET o == Head(task).GlobalFlagOpts
        debugPart == IF call.global.Debug /\ o.DebugFlag # "" THEN <<o.DebugFlag>> ELSE <<>>
    IN /\ cmdArgs = debugPart \o CommandAndTaskArgs
       /\ \A i \in 1..(Len(cmdArgs) - Len(CommandAndTaskArgs)) :
            cmdArgs[i] \notin {o.ProjectDirFlag, o.GodelConfigFlag, o.ConfigFlag}
       /\ resolved = 0

\* an argv built without a wrapper for a task that accepts every flag and
\* has a config file
C15_Witness ==
  /\ ArgvBuilt
  /\ call.global.Wrapper = <<>>
  /\ Head(task).GlobalFlagOpts = AllFlags
  /\ call.cfgFileName # ""
  /\ call.global.Debug
  /\ cmdArgs = <<"--debug", "run", "--debug">>

\* C16: RunImpl returns success when the child exits with status 0, an error
\* whose message is empty when the child exits with another status, and an
\* error whose message wraps the cause for every other failure to start or
\* run the child; the child is started once, nothing is retried.
C16_OutcomeMapping ==
  /\ spawned <= 1
  /\ (ipc = "done" /\ spawned = 1) =>
       /\ call.child = "exit 0" => runErr = <<>>
       /\ call.child \in {"exit 1", "exit 2"} => runErr = <<"">>
       /\ call.child \notin {"exit 0", "exit 1", "exit 2"} =>
            (runErr # <<>> /\ Head(runErr) = "plugin execution failed: " \o call.child)

\* the child exited with status 2 and RunImpl returned the empty error
C16_Witness ==
  /\ ipc = "done"
  /\ spawned = 1
  /\ call.child = "exit 2"
  /\ runErr = <<"">>

\* C20: when Wrapper is not empty and the config directory is resolved, the
\* argv is the concatenation, in this order, of the debug flag (if Debug and
\* the flag is set), the project-dir flag and the parent directory of Wrapper
\* (if the flag is set), the godel-config flag and config-dir/godel.yml (if
\* the flag is set), the plugin-config flag and config-dir/configFileName (if
\* the flag is set and configFileName is not empty), the Command tokens and
\* the TaskArgs.
C20_ArgvShape ==
  (ArgvBuilt /\ call.global.Wrapper # <<>>) =>
    LET o == Head(task).GlobalFlagOpts
        projectDir == PathDir(call.global.Wrapper)
        cfgDir == ConfigDirPath(projectDir, TRUE).cfgDir
    IN cmdArgs =
         (IF call.global.Debug /\ o.DebugFlag # "" THEN <<o.DebugFlag>> ELSE <<>>)
         \o (IF o.ProjectDirFlag # "" THEN <<o.ProjectDirFlag, PathString(projectDir)>> ELSE <<>>)
         \o (IF o.GodelConfigFlag # ""
             THEN <<o.GodelConfigFlag, PathString(cfgDir) \o "/godel.yml">> ELSE <<>>)
         \o (IF o.ConfigFlag # "" /\ call.cfgFileName # ""
             THEN <<o.ConfigFlag, PathString(cfgDir) \o "/" \o call.cfgFileName>> ELSE <<>>)
         \o Head(ti).CommandVar
         \o call.global.TaskArgs

\* the argv of a task that accepts every flag, run with Debug through the
\* wrapper of a project directory, with a Command and TaskArgs
C20_Witness ==
  /\ ArgvBuilt
  /\ call.global.Wrapper = <<"work", "proj", "godelw">>
  /\ cmdArgs = <<"--debug", "--project-dir", "work/proj",
                 "--godel-config", "work/proj/godel/config/godel.yml",
                 "--config", "work/proj/godel/config/plugin.yml",
                 "run", "--debug", "--config", "x.yml">>

\* the files the unhandled pass looked at, backed up or warned about
TreatedAsUnhandled ==
  Range(unhandledYMLFiles)
    \cup {trace[i].file : i \in {j \in 1..Len(trace) : trace[j].who = "unhandled"}}
    \cup UNION {Range(stdout[i].files) : i \in Warnings(stdout)}

\* C21: the ConfigFile of every registered task, with or without a legacy
\* file, is known once the tasks are collected, so a file of that name is
\* never treated as unhandled: never backed up as an empty stray file and
\* never named in the warning.
C21_ConfigFilesClaimed ==
  \A i \in 1..Len(upgradeTasks) :
    /\ pc \in {"plugins", "report", "done"} => upgradeTasks[i].ConfigFile \in knownConfigFiles
    /\ upgradeTasks[i].ConfigFile \notin TreatedAsUnhandled

\* a finished run with a task without legacy file whose ConfigFile was an
\* empty file of the directory, next to a stray file the unhandled pass
\* backed up
C21_Witness ==
  /\ pc = "done"
  /\ result = "nil"
  /\ \E i \in 1..Len(upgradeTasks) :
       /\ upgradeTasks[i].LegacyConfigFile = ""
       /\ upgradeTasks[i].ConfigFile \in DOMAIN start.dir
       /\ start.dir[upgradeTasks[i].ConfigFile] = EmptyBytes
       /\ upgradeTasks[i].ConfigFile \in DOMAIN dir
  /\ \E j \in 1..Len(trace) : trace[j].who = "unhandled" /\ trace[j].op = "backup"

\* C22: a task whose LegacyConfigFile is empty is skipped: when the plugin
\* loop comes to such a task, its transform is not invoked, nothing is backed
\* up or written for it, and it adds no entry to failedUpgrades.
C22_NoLegacySkipped ==
  [][(pc = "plugins" /\ idx <= Len(legacyConfigUpgraderIDs) /\ idx' = idx + 1
        /\ CurrentTask.LegacyConfigFile = "") =>
       (NewEvents = <<>> /\ failedUpgrades' = failedUpgrades)]_vars

\* the next Plugin step is for a task whose legacy file is not in the directory
NoLegacyFileCase ==
  /\ pc = "plugins"
  /\ idx <= Len(legacyConfigUpgraderIDs)
  /\ ~Exists(FS, CurrentTask.LegacyConfigFile)

\* C23: the upgrade of a task whose LegacyConfigFile does not exist in the
\* config directory is a no-op success: the transform is not invoked, nothing
\* is backed up (an existing ConfigFile stays in place with its bytes),
\* nothing is written and no failure is recorded.
C23_MissingLegacyNoOp ==
  [][(NoLegacyFileCase /\ idx' = idx + 1) =>
       /\ NewEvents = <<>>
       /\ NewLines = <<>>
       /\ dir' = dir
       /\ bak' = bak
       /\ failedUpgrades' = failedUpgrades
       /\ ~attempts'[Len(attempts')].failed]_vars

\* a finished real run of one task whose legacy file was not in the
\* directory and whose ConfigFile was
C23_Witness ==
  /\ pc = "done"
  /\ run = "first"
  /\ ~dryRunFlagVal
  /\ Len(upgradeTasks) = 1
  /\ upgradeTasks[1].LegacyConfigFile \notin DOMAIN start.dir \cup {""}
  /\ upgradeTasks[1].ConfigFile \in DOMAIN start.dir
  /\ upgradeTasks[1].ConfigFile \in DOMAIN dir
  /\ \E i \in 1..Len(attempts) : attempts[i].who = upgradeTasks[1].ID /\ ~attempts[i].failed
  /\ result = "nil"

\* the place of an event among the steps of an upgrade
StepRank(e) == IF e.op = "run" THEN 1 ELSE IF e.op = "backup" THEN 2 ELSE 3

\* the events of the upgrade of task t are one transform, then the backup of
\* the legacy file, then the backup of the destination if there is one, then
\* at most one write
StepsInOrder(ev, t) ==
  /\ \A i, j \in 1..Len(ev) : i < j => StepRank(ev[i]) <= StepRank(ev[j])
  /\ ev # <<>> => ev[1].op = "run"
  /\ Cardinality(Calls(ev, "run")) <= 1
  /\ Cardinality(Calls(ev, "write")) <= 1
  /\ Cardinality(Calls(ev, "backup")) <= 2
  /\ \A i \in Calls(ev, "backup") :
       ev[i].file = IF i = 2 THEN t.LegacyConfigFile ELSE t.ConfigFile
  /\ Calls(ev, "write") # {} => Calls(ev, "backup") # {}

\* C24: a file that is at the ConfigFile path when a task starts is never
\* silently overwritten: in a real run, when the task writes its ConfigFile,
\* that file was moved to a backup, with its bytes, before the write; and the
\* steps of a task come in the order transform, backup of the legacy file,
\* backup of the destination, write.
C24_BackupBeforeWrite ==
  [][(pc = "plugins" /\ idx <= Len(legacyConfigUpgraderIDs) /\ idx' = idx + 1) =>
       LET t == CurrentTask
           ev == NewEvents
       IN /\ StepsInOrder(ev, t)
          /\ \A w \in 1..Len(ev) :
               (ev[w].op = "write" /\ ~dryRunFlagVal /\ t.ConfigFile \in DOMAIN dir) =>
                 /\ ev[w].file = t.ConfigFile
                 /\ \E b \in 1..(w - 1) :
                      /\ ev[b].op = "backup"
                      /\ ev[b].real
                      /\ ev[b].file = t.ConfigFile
                      /\ ev[b].bytes = dir[t.ConfigFile]
                 /\ bak'[t.ConfigFile] = Append(bak[t.ConfigFile], dir[t.ConfigFile])]_vars

\* a finished real run of one task that transformed its legacy file, backed
\* up the file that was at its ConfigFile path and wrote the new one
C24_Witness ==
  /\ pc = "done"
  /\ run = "first"
  /\ ~dryRunFlagVal
  /\ Len(upgradeTasks) = 1
  /\ upgradeTasks[1].ConfigFile # upgradeTasks[1].LegacyConfigFile
  /\ upgradeTasks[1].ConfigFile \in DOMAIN start.dir
  /\ bak[upgradeTasks[1].ConfigFile] = <<start.dir[upgradeTasks[1].ConfigFile]>>
  /\ upgradeTasks[1].ConfigFile \in DOMAIN dir
  /\ dir[upgradeTasks[1].ConfigFile] # start.dir[upgradeTasks[1].ConfigFile]
  /\ Len(trace) >= 4
  /\ trace[4].op = "write"

\* C25: the bytes handed to the transform of a task are the document of its
\* legacy file with the entry legacy-config: true before it as the first
\* key, the entries of the file following in their order; never the legacy
\* document itself, never one whose first key is not the marker.
C25_MarkerFirst ==
  [][(pc = "plugins" /\ idx <= Len(legacyConfigUpgraderIDs) /\ idx' = idx + 1) =>
       \A i \in Calls(NewEvents, "run") :
         LET given == NewEvents[i].bytes
             legacy == dir[CurrentTask.LegacyConfigFile]
         IN /\ Len(given) = Len(legacy) + 1
            /\ given[1] = [key |-> "legacy-config", val |-> <<"true">>]
            /\ \A k \in 1..Len(legacy) : given[k + 1] = legacy[k]]_vars

\* a transform was given the marker followed by the two entries of its
\* legacy file
C25_Witness ==
  \E i \in Calls(trace, "run") :
    /\ Len(trace[i].bytes) = 3
    /\ trace[i].bytes[1].key = "legacy-config"
    /\ trace[i].bytes[2].key # trace[i].bytes[3].key

\* C26: at the end of every run the file name of every built-in upgrader and
\* the LegacyConfigFile of every registered task that has one are in
\* knownConfigFiles, whether the upgrade succeeded, failed or had nothing to
\* do; so such a file is never treated as unhandled.
C26_LegacyFilesKnown ==
  pc = "done" =>
    /\ \A k \in 1..Len(HardCodedLegacyUpgraders) :
         /\ HardCodedLegacyUpgraders[k] \in knownConfigFiles
         /\ HardCodedLegacyUpgraders[k] \notin TreatedAsUnhandled
    /\ \A i \in 1..Len(upgradeTasks) :
         upgradeTasks[i].LegacyConfigFile # "" =>
           /\ upgradeTasks[i].LegacyConfigFile \in knownConfigFiles
           /\ upgradeTasks[i].LegacyConfigFile \notin TreatedAsUnhandled

\* the options of kind k among params, in order
OfKind(params, k) == SelectSeq(params, LAMBDA p : p.kind = k)

LastOf(seq) == seq[Len(seq)]

\* C27: NewTaskInfo applies its options left to right over the base
\* descriptor: each of the command, the global flag options and the verify
\* options is what the last option for that field set (so that an option
\* given twice counts once), is unset when no option names it, whatever the
\* options for the other fields, and nil options are skipped.
C27_OptionsLeftToRight ==
  (Constructed /\ ti # <<>>) =>
    LET impl == Head(ti)
        commands == OfKind(call.params, "command")
        globals == OfKind(call.params, "global")
        verifies == OfKind(call.params, "verify")
    IN /\ impl.NameVar = call.name
       /\ impl.DescriptionVar = call.description
       /\ impl.CommandVar = IF commands = <<>> THEN <<>> ELSE LastOf(commands).command
       /\ impl.GlobalFlagOptionsVar = IF globals = <<>> THEN <<>> ELSE <<LastOf(globals).global>>
       /\ impl.VerifyOptionsVar = IF verifies = <<>> THEN <<>> ELSE <<LastOf(verifies).verify>>

\* a descriptor built from a command option, a nil option and another
\* command option has the command of the last
C27_Witness ==
  /\ Constructed
  /\ ti # <<>>
  /\ Len(call.params) = 3
  /\ call.params[1].kind = "command"
  /\ call.params[2].kind = "nil"
  /\ call.params[3].kind = "command"
  /\ call.params[1].command # <<>>
  /\ call.params[3].command # call.params[1].command
  /\ Head(ti).CommandVar = call.params[3].command

\* the entries of directory d the pipeline is to ignore: the files whose name
\* does not end in .yml and the subdirectories
OtherEntries(d) == {n \in DOMAIN d : ~HasSuffixYML(n) \/ d[n] = DirMark}

\* originalYMLFiles is exactly the names of the entries that are not
\* directories and end in .yml
EnumeratesYMLFiles ==
  (pc = "start" /\ pc' = "builtin") =>
    /\ Range(originalYMLFiles') = DOMAIN dir \ OtherEntries(dir)
    /\ Len(originalYMLFiles') = Cardinality(DOMAIN dir \ OtherEntries(dir))

\* no upgrade opens an entry the pipeline is to ignore
OpensNoOtherEntry ==
  (pc = "plugins" /\ idx <= Len(legacyConfigUpgraderIDs) /\ idx' = idx + 1) =>
    CurrentTask.LegacyConfigFile \notin OtherEntries(dir)

\* the entries the pipeline is to ignore are where they were, as they were,
\* and no transform, backup or write was about one of them
OtherEntriesUntouched ==
  \A n \in OtherEntries(start.dir) :
    /\ n \in DOMAIN dir
    /\ dir[n] = start.dir[n]
    /\ bak[n] = <<>>
    /\ \A i \in 1..Len(trace) : trace[i].file # n

\* C28 as stated: originalYMLFiles is exactly the names of the non-directory
\* entries that end in .yml, and in every run, for every list of tasks, no
\* file whose name does not end in .yml and no subdirectory is read, backed
\* up or written.
C28_IgnoresOtherEntriesClaimed ==
  [][EnumeratesYMLFiles /\ OpensNoOtherEntry]_vars /\ []OtherEntriesUntouched

\* every file a task names ends in .yml and is not a subdirectory
TasksNameYMLFiles ==
  \A i \in 1..Len(upgradeTasks) :
    \A f \in {upgradeTasks[i].ConfigFile, upgradeTasks[i].LegacyConfigFile} \ {""} :
      HasSuffixYML(f) /\ f \notin OtherEntries(start.dir)

\* C28 as amended: originalYMLFiles is exactly the names of the non-directory
\* entries that end in .yml, and no file whose name does not end in .yml and
\* no subdirectory is read, backed up or written, provided the ConfigFile
\* and the LegacyConfigFile of every task end in .yml and name no
\* subdirectory.
C28_IgnoresOtherEntries ==
  /\ [][EnumeratesYMLFiles /\ (TasksNameYMLFiles => OpensNoOtherEntry)]_vars
  /\ [](TasksNameYMLFiles => OtherEntriesUntouched)

\* a finished real run that upgraded a legacy file and backed up a stray
\* empty file next to a file that is not YAML and a subdirectory
C28_Witness ==
  /\ pc = "done"
  /\ ~dryRunFlagVal
  /\ TasksNameYMLFiles
  /\ {"notes.txt", "sub.yml"} \subseteq OtherEntries(start.dir)
  /\ Calls(trace, "write") # {}
  /\ \E i \in Calls(trace, "backup") : trace[i].who = "unhandled"
  /\ originalYMLFiles = <<"a.yml", "r.yml">>

\* the built-in upgrader is about to run and exclude.yml is not there
NoExcludeFileCase == pc = "builtin" /\ ~Exists(FS, ExcludeYML)

\* the built-in upgrader is about to run, exclude.yml and godel.yml are
\* read and parsed, and godel.yml has every name and path of exclude.yml
NothingToMergeCase ==
  /\ pc = "builtin"
  /\ Exists(FS, ExcludeYML)
  /\ ~ReadFails(FS, ExcludeYML)
  /\ StrictNamesPathsValid(dir[ExcludeYML])
  /\ Exists(FS, GodelYML)
  /\ ~ReadGodelConfigFromFile(FS, GodelYML, missingIsEmpty).err
  /\ Range(NamesPathsCfg(dir[ExcludeYML]).Names) \subseteq Range(NamesPathsCfg(dir[GodelYML]).Names)
  /\ Range(NamesPathsCfg(dir[ExcludeYML]).Paths) \subseteq Range(NamesPathsCfg(dir[GodelYML]).Paths)

Pairs ==
  {<<matchCall.c.MD5, matchCall.other.MD5>>, <<matchCall.c.SHA1, matchCall.other.SHA1>>,
   <<matchCall.c.SHA256, matchCall.other.SHA256>>}

BothSides == {pr \in Pairs : "" \notin {pr[1], pr[2]}}

\* C30: checksums.match returns true exactly when at least one of MD5, SHA1
\* and SHA256 is non-empty on both sides and equal and none that is
\* non-empty on both sides differs; it is symmetric in its two arguments,
\* and false when every pair has an empty side.
C30_ChecksumsMatch ==
  /\ mpc \in {"matched", "done"} =>
       /\ matchRet <=> (BothSides # {} /\ \A pr \in BothSides : pr[1] = pr[2])
       /\ BothSides = {} => ~matchRet
  /\ mpc = "done" => backRet = matchRet

\* a comparison that returned true with one checksum missing on one side,
\* both ways round
C30_Witness ==
  /\ mpc = "done"
  /\ matchRet
  /\ backRet
  /\ Cardinality(BothSides) = 2
  /\ matchCall.c # matchCall.other

\* the next Plugin step finds the legacy file and cannot read it, cannot
\* parse it, or the transform of the task fails
FailingUpgradeCase ==
  /\ pc = "plugins"
  /\ idx <= Len(legacyConfigUpgraderIDs)
  /\ Exists(FS, CurrentTask.LegacyConfigFile)
  /\ \/ ReadFails(FS, CurrentTask.LegacyConfigFile)
     \/ ~YAMLValid(dir[CurrentTask.LegacyConfigFile])
     \/ CurrentTask.Run = "fail"

\* C31: a plugin upgrade that fails before the backup step (the legacy file
\* cannot be read or parsed, or the Run transform fails) makes no backup
\* and no write, in real and dry run alike: every file stays at its path
\* with its bytes, and exactly one failure, for the ConfigFile of the task,
\* is recorded.
C31_FailedUpgradeUntouched ==
  [][(FailingUpgradeCase /\ idx' = idx + 1) =>
       /\ dir' = dir
       /\ bak' = bak
       /\ unreadable' = unreadable
       /\ \A i \in 1..Len(NewEvents) : NewEvents[i].op = "run"
       /\ Len(failedUpgrades') = Len(failedUpgrades) + 1
       /\ SubSeq(failedUpgrades', 1, Len(failedUpgrades)) = failedUpgrades
       /\ failedUpgrades'[Len(failedUpgrades')].file = CurrentTask.ConfigFile]_vars

\* a real run in which the transform of a task failed with the legacy file
\* and the destination file in place
C31_Witness ==
  /\ pc = "plugins"
  /\ run = "first"
  /\ ~dryRunFlagVal
  /\ Len(attempts) = 2
  /\ attempts[2].failed
  /\ Len(failedUpgrades) = 1
  /\ \E i \in 1..Len(upgradeTasks) :
       /\ upgradeTasks[i].ID = attempts[2].who
       /\ upgradeTasks[i].Run = "fail"
       /\ upgradeTasks[i].LegacyConfigFile # upgradeTasks[i].ConfigFile
       /\ {upgradeTasks[i].LegacyConfigFile, upgradeTasks[i].ConfigFile} \subseteq DOMAIN dir
       /\ failedUpgrades[1].file = upgradeTasks[i].ConfigFile
  /\ trace # <<>>
  /\ trace[Len(trace)].op = "run"
  /\ dir = start.dir

\* the tasks handed to upgradeLegacyConfig in the current run, in order
Invoked ==
  [i \in 1..Len(SelectSeq(attempts, LAMBDA a : a.task # NoTask)) |->
     SelectSeq(attempts, LAMBDA a : a.task # NoTask)[i].task]

\* how many times t occurs in the sequence ts
Occurrences(ts, t) == Cardinality({i \in 1..Len(ts) : ts[i] = t})

\* C32: in every run, for every list of registered tasks, the tasks handed
\* to the per-task upgrade are the registered tasks with a non-empty
\* LegacyConfigFile, each as often as it is registered: none is invoked
\* twice, none is left out and no other task is invoked.
C32_EachTaskOnce ==
  pc = "done" =>
    \A t \in Range(upgradeTasks) \cup Range(Invoked) :
      Occurrences(Invoked, t) =
        Occurrences(SelectSeq(upgradeTasks, LAMBDA u : u.LegacyConfigFile # ""), t)

\* the writes of upgraded configuration by the tasks of plugins
PluginWrites == {i \in Calls(trace, "write") : trace[i].who # ExcludeYML}

\* the file written by event i still holds the bytes written, and nothing
\* after the write transformed it, backed it up or wrote it
OutputSurvives(i) ==
  /\ trace[i].file \in DOMAIN dir
  /\ dir[trace[i].file] = trace[i].bytes
  /\ \A j \in (i + 1)..Len(trace) : trace[j].file # trace[i].file

\* a real run has ended without a reported failure
CleanRealRun == pc = "done" /\ ~dryRunFlagVal /\ failedUpgrades = <<>> /\ result = "nil"

\* C33 as stated: at the end of a real run with no reported failure, for
\* every task whose legacy file existed and whose transform returned
\* non-empty bytes, the file at the task's ConfigFile holds exactly those
\* bytes and was not backed up, transformed again or overwritten afterwards.
C33_OutputSurvivesClaimed == CleanRealRun => \A i \in PluginWrites : OutputSurvives(i)

\* no task writes where another task writes or where a task reads
SeparateOutputs(tasks) ==
  \A i, j \in 1..Len(tasks) :
    /\ i # j => tasks[i].ConfigFile # tasks[j].ConfigFile
    /\ tasks[i].ConfigFile # tasks[j].LegacyConfigFile

\* C33 as amended: at the end of a real run with no reported failure, the
\* file at the ConfigFile of every task whose legacy file existed and whose
\* transform returned non-empty bytes holds exactly those bytes, provided no
\* task's ConfigFile is the ConfigFile of another registered task or the
\* LegacyConfigFile of a registered task.
C33_OutputSurvives ==
  (CleanRealRun /\ SeparateOutputs(upgradeTasks)) => \A i \in PluginWrites : OutputSurvives(i)

\* a first real run without failure in which two tasks wrote their upgraded
\* configuration, one of them over a file that was there before
C33_Witness ==
  /\ CleanRealRun
  /\ run = "first"
  /\ SeparateOutputs(upgradeTasks)
  /\ Cardinality(PluginWrites) = 2
  /\ \A i \in PluginWrites : OutputSurvives(i)
  /\ \E i \in PluginWrites : trace[i].file \in DOMAIN start.dir

\* the task takes a flag whose value is a path in the config directory
WantsConfigDir ==
  /\ task # <<>>
  /\ \/ Head(task).GlobalFlagOpts.GodelConfigFlag # ""
     \/ Head(task).GlobalFlagOpts.ConfigFlag # "" /\ Head(task).ConfigFile # ""

\* C34: the config directory is resolved only when Wrapper is non-empty and
\* the task accepts a godel-config flag, or a plugin-config flag with a
\* non-empty config file name; when the resolution is attempted and fails,
\* RunImpl returns an error and the plugin executable is never spawned.
C34_ConfigDirResolution ==
  /\ resolved > 0 => (call.global.Wrapper # <<>> /\ WantsConfigDir)
  /\ (resolved > 0 /\ ~call.cfgDirOK) => (ipc = "done" /\ runErr # <<>> /\ spawned = 0)

\* RunImpl has returned the error of a failed resolution for a task that
\* takes the plugin-config flag only
C34_Witness ==
  /\ ipc = "done"
  /\ resolved = 1
  /\ ~call.cfgDirOK
  /\ Head(task).GlobalFlagOpts.GodelConfigFlag = ""
  /\ runErr # <<>>
  /\ spawned = 0

\* distribution i is handled without error: its artifact is there, its paths
\* are determined, its Publish succeeds and so does its Almanac publish when
\* one is made
HandledWithoutError(i) ==
  LET d == publishCall.dists[i]
  IN /\ d.exists
     /\ d.type \in {"sls", "bin", "rpm"}
     /\ d.pomOK
     /\ ~d.publish.err
     /\ (publishCall.almanacInfo /\ d.publish.url # "") => d.almanacOK

====
